---- MODULE Spec2Model ----
(***************************************************************************)
(* A model of schemaGenius' parsing engine: the dispatch engine, the HTTP  *)
(* endpoint that calls it, the JSON / SQL / CSV / Python-ORM parsers, the  *)
(* intermediate schema (ISR) objects they build and the PostgreSQL adapter *)
(* that renders an ISR as a script.                                        *)
(*                                                                         *)
(* Python values are tagged records [t |-> <type>, v |-> <payload>];       *)
(* Python dicts are sequences of <<key, value>> pairs (insertion order);   *)
(* texts whose characters matter are sequences of one-character strings.   *)
(* A call's outcome is [kind, value, msg]: kind "ok" for a return, the     *)
(* exception class name when the call raises.                              *)
(***************************************************************************)
EXTENDS Integers, Sequences, FiniteSets, TLC

VARIABLES pc, args, ret

vars == <<pc, args, ret>>

-----------------------------------------------------------------------------
(* Bounds of the model.                                                    *)

MaxJsonTables == 2

MaxJsonColumns == 2

MaxJsonConstraints == 1

MaxFlip == 2

-----------------------------------------------------------------------------
(* Python values and call outcomes.                                        *)

None == [t |-> "null", v |-> "null"]

PStr(s) == [t |-> "string", v |-> s]

PNum(n) == [t |-> "number", v |-> n]

PBool(b) == [t |-> "bool", v |-> b]

PList(s) == [t |-> "array", v |-> s]

PDict(d) == [t |-> "object", v |-> d]

\* a str whose characters matter: a sequence of one-character strings
PText(s) == [t |-> "text", v |-> s]

\* a keyword argument the call site does not pass
NoKw == [t |-> "absent", v |-> "absent"]

\* isinstance(x, list) / isinstance(x, dict)
IsList(x) == x.t = "array"

IsDict(x) == x.t = "object"

\* Python truthiness: None, "", 0, False, [] and {} are falsy.
Truthy(x) ==
  CASE x.t = "null" -> FALSE
    [] x.t = "string" -> x.v # ""
    [] x.t = "number" -> x.v # 0
    [] x.t = "bool" -> x.v
    [] x.t = "array" -> x.v # <<>>
    [] x.t = "object" -> x.v # <<>>
    [] x.t = "text" -> x.v # <<>>
    [] OTHER -> TRUE

HasKey(d, k) == \E i \in 1..Len(d) : d[i][1] = k

\* dict.get(k): the value stored under k, None when k is absent.
Get(d, k) ==
  IF HasKey(d, k) THEN d[CHOOSE i \in 1..Len(d) : d[i][1] = k][2] ELSE None

\* dict.get(k, default)
GetOr(d, k, default) ==
  IF HasKey(d, k) THEN d[CHOOSE i \in 1..Len(d) : d[i][1] = k][2] ELSE default

Ok(v) == [kind |-> "ok", value |-> v, msg |-> <<>>]

Raise(exc, msg) == [kind |-> exc, value |-> None, msg |-> msg]

\* r when the call r raised, else Then applied to what r returned: the
\* propagation of an exception through the caller
Try(r, Then(_)) == IF r.kind # "ok" THEN r ELSE Then(r.value)

SeqsUpTo(S, n) == UNION {[1..k -> S] : k \in 0..n}

-----------------------------------------------------------------------------
(* Letter case (str.lower / str.upper on ASCII texts).                     *)

LowerAlpha ==
  <<"a", "b", "c", "d", "e", "f", "g", "h", "i", "j", "k", "l", "m",
    "n", "o", "p", "q", "r", "s", "t", "u", "v", "w", "x", "y", "z">>

UpperAlpha ==
  <<"A", "B", "C", "D", "E", "F", "G", "H", "I", "J", "K", "L", "M",
    "N", "O", "P", "Q", "R", "S", "T", "U", "V", "W", "X", "Y", "Z">>

LowerChar(c) ==
  IF \E i \in 1..26 : UpperAlpha[i] = c
    THEN LowerAlpha[CHOOSE i \in 1..26 : UpperAlpha[i] = c]
    ELSE c

UpperChar(c) ==
  IF \E i \in 1..26 : LowerAlpha[i] = c
    THEN UpperAlpha[CHOOSE i \in 1..26 : LowerAlpha[i] = c]
    ELSE c

Lower(s) == [i \in 1..Len(s) |-> LowerChar(s[i])]

Upper(s) == [i \in 1..Len(s) |-> UpperChar(s[i])]


-----------------------------------------------------------------------------
(* str methods on texts (sequences of one-character strings).              *)

Digits == {"0", "1", "2", "3", "4", "5", "6", "7", "8", "9"}

Whitespace == {" ", "\t", "\n", "\r"}

\* c.isalnum() on the characters the model uses
IsAlnum(c) ==
  \/ c \in Digits
  \/ \E i \in 1..26 : LowerAlpha[i] = c \/ UpperAlpha[i] = c

\* s.lstrip(chars), s.rstrip(chars), s.strip(chars)
RECURSIVE LStrip(_, _)
LStrip(s, chars) ==
  IF s # <<>> /\ Head(s) \in chars THEN LStrip(Tail(s), chars) ELSE s

RECURSIVE RStrip(_, _)
RStrip(s, chars) ==
  IF s # <<>> /\ s[Len(s)] \in chars
    THEN RStrip(SubSeq(s, 1, Len(s) - 1), chars)
    ELSE s

Strip(s, chars) == RStrip(LStrip(s, chars), chars)

\* s.replace(old, new) for a single character old
Replace(s, old, new) == [i \in 1..Len(s) |-> IF s[i] = old THEN new ELSE s[i]]

\* s.split(sep) for a single character sep: the pieces between separators,
\* empty pieces included
RECURSIVE SplitFrom(_, _, _, _)
SplitFrom(s, sep, cur, acc) ==
  IF s = <<>> THEN Append(acc, cur)
  ELSE IF Head(s) = sep THEN SplitFrom(Tail(s), sep, <<>>, Append(acc, cur))
  ELSE SplitFrom(Tail(s), sep, Append(cur, Head(s)), acc)

Split(s, sep) == SplitFrom(s, sep, <<>>, <<>>)

\* sep.join(parts)
RECURSIVE Join(_, _)
Join(parts, sep) ==
  IF parts = <<>> THEN <<>>
  ELSE IF Len(parts) = 1 THEN parts[1]
  ELSE parts[1] \o <<sep>> \o Join(Tail(parts), sep)

\* filter(None, parts): the non-empty parts
RECURSIVE FilterNonEmpty(_)
FilterNonEmpty(parts) ==
  IF parts = <<>> THEN <<>>
  ELSE IF Head(parts) = <<>> THEN FilterNonEmpty(Tail(parts))
  ELSE <<Head(parts)>> \o FilterNonEmpty(Tail(parts))

\* sub in s
Contains(s, sub) ==
  \E i \in 1..(Len(s) - Len(sub) + 1) : SubSeq(s, i, i + Len(sub) - 1) = sub

\* s.startswith(prefix)
StartsWith(s, prefix) ==
  Len(prefix) <= Len(s) /\ SubSeq(s, 1, Len(prefix)) = prefix

-----------------------------------------------------------------------------
(* intermediate_schema.py                                                  *)

\* ConstraintDetail(constraint_data): type = constraint_data.get("type"),
\* details = constraint_data (the whole dict, not its "details" entry).
ConstraintDetail(constraint_data) ==
  [type |-> Get(constraint_data, "type"), details |-> constraint_data]

ColumnISR(name, generic_type, constraints, comment) ==
  [name |-> name, generic_type |-> generic_type,
   constraints |-> constraints, comment |-> comment]

TableISR(name, columns, comment) ==
  [name |-> name, columns |-> columns, comment |-> comment]

SchemaISR(tables, schema_name, version) ==
  [schema_name |-> schema_name, version |-> version, tables |-> tables]

-----------------------------------------------------------------------------
(* parsers/json_parser.py                                                  *)

\* A text handed to json.loads: either it does not decode (JSONDecodeError)
\* or it decodes to the Python value `value`.
JsonText(valid, value) == [valid |-> valid, value |-> value]

RECURSIVE JsonConstraints(_, _, _, _, _)
\* for const_data in raw_constraints (from index i; acc: constraints_isr)
JsonConstraints(raw, i, acc, col_name, table_name) ==
  IF i > Len(raw) THEN Ok(acc)
  ELSE LET const_data == raw[i] IN
    IF ~IsDict(const_data) \/ ~Truthy(Get(const_data.v, "type"))
      THEN Raise("ValueError",
                 <<PStr("Invalid constraint format for column"), col_name, table_name>>)
      ELSE JsonConstraints(raw, i + 1, Append(acc, ConstraintDetail(const_data.v)),
                           col_name, table_name)

RECURSIVE JsonColumns(_, _, _, _)
\* for col_data in raw_columns (from index i; acc: columns_isr)
JsonColumns(raw, i, acc, table_name) ==
  IF i > Len(raw) THEN Ok(acc)
  ELSE LET col_data == raw[i] IN
    IF ~IsDict(col_data)
      THEN Raise("ValueError", <<PStr("Invalid column entry in table"), table_name>>)
      ELSE LET col_name == Get(col_data.v, "name")
               col_type == Get(col_data.v, "generic_type")
               col_comment == Get(col_data.v, "comment")
               raw_constraints == Get(col_data.v, "constraints")
           IN IF ~Truthy(col_name) \/ ~Truthy(col_type)
                THEN Raise("ValueError",
                           <<PStr("Missing 'name' or 'generic_type' for column in table"),
                             table_name>>)
                ELSE LET cons == IF IsList(raw_constraints)
                                   THEN JsonConstraints(raw_constraints.v, 1, <<>>,
                                                        col_name, table_name)
                                   ELSE Ok(<<>>)
                     IN IF cons.kind # "ok" THEN cons
                        ELSE JsonColumns(raw, i + 1,
                               Append(acc, ColumnISR(col_name, col_type,
                                                     cons.value, col_comment)),
                               table_name)

RECURSIVE JsonTables(_, _, _)
\* for table_data in raw_tables (from index i; acc: tables_isr)
JsonTables(raw, i, acc) ==
  IF i > Len(raw) THEN Ok(acc)
  ELSE LET table_data == raw[i] IN
    IF ~IsDict(table_data)
      THEN Raise("ValueError", <<PStr("Invalid table entry in 'tables' list")>>)
      ELSE LET table_name == Get(table_data.v, "name")
               table_comment == Get(table_data.v, "comment")
               raw_columns == Get(table_data.v, "columns")
           IN IF ~Truthy(table_name)
                THEN Raise("ValueError", <<PStr("Missing 'name' for table")>>)
              ELSE IF ~IsList(raw_columns)
                THEN Raise("ValueError",
                           <<PStr("Missing or invalid 'columns' list for table"), table_name>>)
              ELSE LET cols == JsonColumns(raw_columns.v, 1, <<>>, table_name)
                   IN IF cols.kind # "ok" THEN cols
                      ELSE JsonTables(raw, i + 1,
                             Append(acc, TableISR(table_name, cols.value,
                                                  table_comment)))

\* parse_json_input(json_data). `data.get` is an attribute lookup on whatever
\* json.loads returned: on a list, string, number, bool or None it raises
\* AttributeError.
parse_json_input(json_data) ==
  IF ~json_data.valid THEN Raise("ValueError", <<PStr("Invalid JSON format")>>)
  ELSE LET data == json_data.value IN
    IF ~IsDict(data)
      THEN Raise("AttributeError", <<PStr("object has no attribute 'get'"), PStr(data.t)>>)
      ELSE LET schema_name == Get(data.v, "schema_name")
               schema_version == Get(data.v, "version")
               raw_tables == Get(data.v, "tables")
           IN IF ~IsList(raw_tables)
                THEN Raise("ValueError",
                           <<PStr("Missing or invalid 'tables' list in JSON input.")>>)
                ELSE LET tabs == JsonTables(raw_tables.v, 1, <<>>)
                     IN IF tabs.kind # "ok" THEN tabs
                        ELSE Ok(SchemaISR(tabs.value, schema_name, schema_version))

-----------------------------------------------------------------------------
(* The documents the JSON parser is run on.                                *)

Entry(k, v) == << <<k, v>> >>

ConstraintElems ==
  {PStr("PRIMARY_KEY"), PDict(<<>>),
   PDict(Entry("type", PStr("PRIMARY_KEY"))),
   PDict(Entry("type", PStr("NOT_NULL")))}

ConstraintsFrags ==
  {<<>>, Entry("constraints", PStr("PRIMARY_KEY")),
   Entry("constraints", PList(<<PDict(Entry("type", PStr("UNIQUE"))),
                                PDict(Entry("type", PStr("NOT_NULL")))>>))}
    \cup {Entry("constraints", PList(s)) :
            s \in SeqsUpTo(ConstraintElems, MaxJsonConstraints)}

ColumnElems ==
  {PStr("id"),
   PDict(Entry("generic_type", PStr("INTEGER"))),
   PDict(Entry("name", PStr("id"))),
   PDict(Entry("name", PStr("")) \o Entry("generic_type", PStr("INTEGER")))}
    \cup {PDict(Entry("name", PStr("id")) \o Entry("generic_type", PStr("INTEGER")) \o c) :
            c \in ConstraintsFrags}

ColumnsFrags ==
  {<<>>, Entry("columns", PDict(<<>>))}
    \cup {Entry("columns", PList(s)) : s \in SeqsUpTo(ColumnElems, MaxJsonColumns)}

TableElems ==
  {PStr("t"), PDict(Entry("columns", PList(<<>>)))}
    \cup {PDict(Entry("name", PStr("t")) \o c) : c \in ColumnsFrags}

TablesFrags ==
  {<<>>, Entry("tables", PDict(<<>>))}
    \cup {Entry("tables", PList(s)) : s \in SeqsUpTo(TableElems, MaxJsonTables)}

\* the document of the scenario: table t, column id INTEGER PRIMARY_KEY
DocScenario ==
  PDict(Entry("tables", PList(<<
    PDict(Entry("name", PStr("t")) \o Entry("columns", PList(<<
      PDict(Entry("name", PStr("id")) \o Entry("generic_type", PStr("INTEGER"))
            \o Entry("constraints",
                     PList(<<PDict(Entry("type", PStr("PRIMARY_KEY")))>>)))>>)))>>)))

\* test_parse_valid_simple_json: schema TestDB, table users (id, email)
DocUsers ==
  PDict(Entry("schema_name", PStr("TestDB")) \o Entry("version", PStr("1.1"))
    \o Entry("tables", PList(<<
      PDict(Entry("name", PStr("users")) \o Entry("comment", PStr("User table"))
        \o Entry("columns", PList(<<
          PDict(Entry("name", PStr("id")) \o Entry("generic_type", PStr("INTEGER"))
                \o Entry("comment", PStr("Primary key"))
                \o Entry("constraints",
                         PList(<<PDict(Entry("type", PStr("PRIMARY_KEY")))>>))),
          PDict(Entry("name", PStr("email")) \o Entry("generic_type", PStr("STRING"))
                \o Entry("constraints",
                         PList(<<PDict(Entry("type", PStr("UNIQUE"))),
                                 PDict(Entry("type", PStr("NOT_NULL")))>>)))>>)))>>)))

NonObjectDocs == {None, PList(<<>>), PStr("tables"), PNum(1), PBool(TRUE)}

JsonTexts ==
  {JsonText(FALSE, None), JsonText(TRUE, DocScenario), JsonText(TRUE, DocUsers)}
    \cup {JsonText(TRUE, v) : v \in NonObjectDocs}
    \cup {JsonText(TRUE, PDict(t)) : t \in TablesFrags}


-----------------------------------------------------------------------------
(* parsers/sql_parser.py.  sqlparse is a library: what it hands to the     *)
(* parser, a list of statements made of tokens, is the input of the model. *)
(* A token has its class (Token, or a group class: Identifier, Function,   *)
(* Parenthesis, IdentifierList), its ttype (None for a group), its text    *)
(* str(token), the tokens it groups, what get_real_name() returns and      *)
(* whether get_parameters() is non-empty.                                  *)

Tok(cls, ttype, value) ==
  [cls |-> cls, ttype |-> ttype, value |-> value, tokens |-> <<>>,
   real_name |-> value, has_params |-> FALSE]

Group(cls, value, tokens, real_name, has_params) ==
  [cls |-> cls, ttype |-> "None", value |-> value, tokens |-> tokens,
   real_name |-> real_name, has_params |-> has_params]

\* ttype in Keyword (a token type contains its subtypes; None is in no type)
InKeyword(ttype) == ttype \in {"Keyword", "Keyword.DDL", "Keyword.DML"}

is_whitespace(t) == t.ttype = "Whitespace"

is_comment(t) == t.ttype = "Comment"

is_keyword(t) == InKeyword(t.ttype)

\* token.match(ttype, value): the exact ttype, the value compared in upper case
match(t, ttype, value) == t.ttype = ttype /\ Upper(t.value) = value

\* isinstance(token, (Identifier, TokenList)): every group class
IsTokenList(t) ==
  t.cls \in {"Identifier", "Function", "Parenthesis", "IdentifierList", "TokenList"}

\* the grave accent, as a character of a text
Backtick == "grave accent"

\* identifier.strip(chars), chars being the grave accent and both quotes
_clean_identifier(identifier) == Strip(identifier, {Backtick, "'", "\""})

\* the mapping with INT tested before BIGINT
map_int_before_bigint(sql_type, type_params) ==
  LET u == Upper(_clean_identifier(sql_type)) IN
  IF Contains(u, <<"I", "N", "T">>) THEN "INTEGER"
  ELSE IF Contains(u, <<"B", "I", "G", "I", "N", "T">>) THEN "BIG_INTEGER"
  ELSE IF Contains(u, <<"T", "E", "X", "T">>) \/ Contains(u, <<"C", "L", "O", "B">>) THEN "TEXT"
  ELSE IF \/ StartsWith(u, <<"V", "A", "R", "C", "H", "A", "R">>) \/ StartsWith(u, <<"C", "H", "A", "R">>)
          \/ StartsWith(u, <<"S", "T", "R", "I", "N", "G">>) \/ StartsWith(u, <<"N", "V", "A", "R", "C", "H", "A", "R">>) THEN "STRING"
  ELSE IF Contains(u, <<"D", "E", "C", "I", "M", "A", "L">>) \/ Contains(u, <<"N", "U", "M", "E", "R", "I", "C">>) THEN "DECIMAL"
  ELSE IF \/ Contains(u, <<"F", "L", "O", "A", "T">>) \/ Contains(u, <<"R", "E", "A", "L">>)
          \/ Contains(u, <<"D", "O", "U", "B", "L", "E">>) THEN "FLOAT"
  ELSE IF u = <<"D", "A", "T", "E", "T", "I", "M", "E">> THEN "DATETIME"
  ELSE IF Contains(u, <<"T", "I", "M", "E", "S", "T", "A", "M", "P">>) THEN "TIMESTAMP"
  ELSE IF u = <<"D", "A", "T", "E">> THEN "DATE"
  ELSE IF u = <<"T", "I", "M", "E">> /\ ~Contains(u, <<"T", "I", "M", "E", "S", "T", "A", "M", "P">>) THEN "TIME"
  ELSE IF Contains(u, <<"B", "O", "O", "L">>) THEN "BOOLEAN"
  ELSE IF \/ Contains(u, <<"B", "L", "O", "B">>) \/ Contains(u, <<"B", "I", "N", "A", "R", "Y">>)
          \/ Contains(u, <<"B", "Y", "T", "E", "A">>) THEN "BLOB"
  ELSE IF Contains(u, <<"J", "S", "O", "N">>) THEN "JSON_TYPE"
  ELSE IF Contains(u, <<"U", "U", "I", "D">>) THEN "UUID_TYPE"
  ELSE "STRING"

\* _map_sql_type_to_generic(sql_type, type_params)
_map_sql_type_to_generic(sql_type, type_params) ==
  LET u == Upper(_clean_identifier(sql_type)) IN
  IF Contains(u, <<"B", "I", "G", "I", "N", "T">>) THEN "BIG_INTEGER"
  ELSE IF Contains(u, <<"I", "N", "T">>) THEN "INTEGER"
  ELSE IF Contains(u, <<"T", "E", "X", "T">>) \/ Contains(u, <<"C", "L", "O", "B">>) THEN "TEXT"
  ELSE IF \/ StartsWith(u, <<"V", "A", "R", "C", "H", "A", "R">>) \/ StartsWith(u, <<"C", "H", "A", "R">>)
          \/ StartsWith(u, <<"S", "T", "R", "I", "N", "G">>) \/ StartsWith(u, <<"N", "V", "A", "R", "C", "H", "A", "R">>) THEN "STRING"
  ELSE IF Contains(u, <<"D", "E", "C", "I", "M", "A", "L">>) \/ Contains(u, <<"N", "U", "M", "E", "R", "I", "C">>) THEN "DECIMAL"
  ELSE IF \/ Contains(u, <<"F", "L", "O", "A", "T">>) \/ Contains(u, <<"R", "E", "A", "L">>)
          \/ Contains(u, <<"D", "O", "U", "B", "L", "E">>) THEN "FLOAT"
  ELSE IF u = <<"D", "A", "T", "E", "T", "I", "M", "E">> THEN "DATETIME"
  ELSE IF Contains(u, <<"T", "I", "M", "E", "S", "T", "A", "M", "P">>) THEN "TIMESTAMP"
  ELSE IF u = <<"D", "A", "T", "E">> THEN "DATE"
  ELSE IF u = <<"T", "I", "M", "E">> /\ ~Contains(u, <<"T", "I", "M", "E", "S", "T", "A", "M", "P">>) THEN "TIME"
  ELSE IF Contains(u, <<"B", "O", "O", "L">>) THEN "BOOLEAN"
  ELSE IF \/ Contains(u, <<"B", "L", "O", "B">>) \/ Contains(u, <<"B", "I", "N", "A", "R", "Y">>)
          \/ Contains(u, <<"B", "Y", "T", "E", "A">>) THEN "BLOB"
  ELSE IF Contains(u, <<"J", "S", "O", "N">>) THEN "JSON_TYPE"
  ELSE IF Contains(u, <<"U", "U", "I", "D">>) THEN "UUID_TYPE"
  ELSE "STRING"

DigitSeq == <<"0", "1", "2", "3", "4", "5", "6", "7", "8", "9">>

DigitValue(c) == (CHOOSE i \in 1..10 : DigitSeq[i] = c) - 1

RECURSIVE IntValue(_)
IntValue(s) ==
  IF s = <<>> THEN 0 ELSE 10 * IntValue(SubSeq(s, 1, Len(s) - 1)) + DigitValue(s[Len(s)])

\* int(s): a ValueError unless s is an optional sign followed by digits
python_int(s) ==
  LET neg == s # <<>> /\ Head(s) = "-"
      body == IF s # <<>> /\ Head(s) \in {"-", "+"} THEN Tail(s) ELSE s
  IN IF body # <<>> /\ \A i \in 1..Len(body) : body[i] \in Digits
       THEN Ok(PNum(IF neg THEN 0 - IntValue(body) ELSE IntValue(body)))
       ELSE Raise("ValueError",
                  <<PStr("invalid literal for int() with base 10"), PText(s)>>)

\* float(s) on a number literal: the float, kept as its text
python_float(s) == Ok([t |-> "float", v |-> s])

\* the constraint dicts _extract_column_details builds
TypeOnly(type) == Entry("type", PStr(type))

DefaultData(value) ==
  Entry("type", PStr("DEFAULT")) \o Entry("details", PDict(Entry("value", value)))

\* actual_default_value of a DEFAULT's value token (lines 103-111)
ActualDefaultValue(default_val_token) ==
  LET default_value_str == _clean_identifier(default_val_token.value) IN
  IF default_val_token.ttype \in {"Number.Integer", "Number.Float"}
    THEN IF \E i \in 1..Len(default_value_str) : default_value_str[i] = "."
           THEN python_float(default_value_str)
           ELSE python_int(default_value_str)
  ELSE IF Upper(default_value_str) = <<"T", "R", "U", "E">> THEN Ok(PBool(TRUE))
  ELSE IF Upper(default_value_str) = <<"F", "A", "L", "S", "E">> THEN Ok(PBool(FALSE))
  ELSE Ok(PText(default_value_str))

\* the `while idx < len(tokens)` loop of _extract_column_details; idx counts
\* from 1
RECURSIVE ColumnConstraints(_, _, _)
ColumnConstraints(tokens, idx, constraints) ==
  IF idx > Len(tokens) THEN Ok(constraints)
  ELSE LET token_value == Upper(tokens[idx].value)
           NextIs(k, word) == idx + k <= Len(tokens) /\ Upper(tokens[idx + k].value) = word
       IN
    IF token_value = <<"N", "O", "T">> /\ NextIs(1, <<"N", "U", "L", "L">>)
      THEN ColumnConstraints(tokens, idx + 2,
             Append(constraints, ConstraintDetail(TypeOnly("NOT_NULL"))))
    ELSE IF token_value = <<"N", "U", "L", "L">>
      THEN ColumnConstraints(tokens, idx + 1, constraints)
    ELSE IF token_value = <<"P", "R", "I", "M", "A", "R", "Y">> /\ NextIs(1, <<"K", "E", "Y">>)
      THEN IF NextIs(2, <<"A", "U", "T", "O", "_", "I", "N", "C", "R", "E", "M", "E", "N", "T">>)
             THEN ColumnConstraints(tokens, idx + 3,
                    constraints \o <<ConstraintDetail(TypeOnly("PRIMARY_KEY")),
                                     ConstraintDetail(TypeOnly("AUTO_INCREMENT"))>>)
             ELSE ColumnConstraints(tokens, idx + 2,
                    Append(constraints, ConstraintDetail(TypeOnly("PRIMARY_KEY"))))
    ELSE IF token_value = <<"U", "N", "I", "Q", "U", "E">>
      THEN ColumnConstraints(tokens, idx + 1,
             Append(constraints, ConstraintDetail(TypeOnly("UNIQUE"))))
    ELSE IF token_value = <<"A", "U", "T", "O", "_", "I", "N", "C", "R", "E", "M", "E", "N", "T">> \/ token_value = <<"A", "U", "T", "O", "I", "N", "C", "R", "E", "M", "E", "N", "T">>
      THEN ColumnConstraints(tokens, idx + 1,
             Append(constraints, ConstraintDetail(TypeOnly("AUTO_INCREMENT"))))
    ELSE IF token_value = <<"D", "E", "F", "A", "U", "L", "T">>
      THEN IF idx + 1 <= Len(tokens)
             THEN Try(ActualDefaultValue(tokens[idx + 1]), LAMBDA actual_default_value :
                    ColumnConstraints(tokens, idx + 2,
                      Append(constraints,
                             ConstraintDetail(DefaultData(actual_default_value)))))
             ELSE ColumnConstraints(tokens, idx + 1, constraints)
    ELSE ColumnConstraints(tokens, idx + 1, constraints)


\* the index of the first token after the column name and the column type
\* with its parameters, where the constraint loop starts (lines 83-98); idx
\* counts from 1
AfterType(tokens) ==
  LET idx == IF tokens # <<>> /\ ~InKeyword(tokens[1].ttype) THEN 2 ELSE 1
      typed == /\ idx <= Len(tokens)
               /\ \/ InKeyword(tokens[idx].ttype)
                  \/ tokens[idx].cls \in {"Identifier", "Function"}
      separate == /\ typed
                  /\ ~(tokens[idx].cls = "Function" /\ tokens[idx].has_params)
                  /\ idx + 1 <= Len(tokens)
                  /\ tokens[idx + 1].cls = "Parenthesis"
  IN IF ~typed THEN idx ELSE IF separate THEN idx + 2 ELSE idx + 1

\* one iteration of the `while idx < len(tokens)` loop at idx <= Len(tokens)
\* (lines 72-120): the branch taken, idx after it, the highest index whose
\* token it read, and the constraints it appended or the exception of int().
\* When int() raises, idx has been advanced past DEFAULT only (line 102).
ScanStep(tokens, idx) ==
  LET token_value == Upper(tokens[idx].value)
      Has(k) == idx + k <= Len(tokens)
      NextIs(k, word) == Has(k) /\ Upper(tokens[idx + k].value) = word
      Step(branch, n, read, added) ==
        [branch |-> branch, idx |-> idx + n, read |-> read, added |-> added]
      Other(read) == Step("other", 1, read, Ok(<<>>))
  IN
  IF token_value = <<"N", "O", "T">>
    THEN IF NextIs(1, <<"N", "U", "L", "L">>)
           THEN Step("NOT NULL", 2, idx + 1, Ok(<<ConstraintDetail(TypeOnly("NOT_NULL"))>>))
           ELSE Other(IF Has(1) THEN idx + 1 ELSE idx)
  ELSE IF token_value = <<"N", "U", "L", "L">> THEN Step("NULL", 1, idx, Ok(<<>>))
  ELSE IF token_value = <<"P", "R", "I", "M", "A", "R", "Y">>
    THEN IF NextIs(1, <<"K", "E", "Y">>)
           THEN IF NextIs(2, <<"A", "U", "T", "O", "_", "I", "N", "C", "R", "E", "M", "E", "N", "T">>)
                  THEN Step("PRIMARY KEY AUTO_INCREMENT", 3, idx + 2,
                            Ok(<<ConstraintDetail(TypeOnly("PRIMARY_KEY")),
                                 ConstraintDetail(TypeOnly("AUTO_INCREMENT"))>>))
                  ELSE Step("PRIMARY KEY", 2, IF Has(2) THEN idx + 2 ELSE idx + 1,
                            Ok(<<ConstraintDetail(TypeOnly("PRIMARY_KEY"))>>))
           ELSE Other(IF Has(1) THEN idx + 1 ELSE idx)
  ELSE IF token_value = <<"U", "N", "I", "Q", "U", "E">>
    THEN Step("UNIQUE", 1, idx, Ok(<<ConstraintDetail(TypeOnly("UNIQUE"))>>))
  ELSE IF token_value = <<"A", "U", "T", "O", "_", "I", "N", "C", "R", "E", "M", "E", "N", "T">> \/ token_value = <<"A", "U", "T", "O", "I", "N", "C", "R", "E", "M", "E", "N", "T">>
    THEN Step("AUTO_INCREMENT", 1, idx, Ok(<<ConstraintDetail(TypeOnly("AUTO_INCREMENT"))>>))
  ELSE IF token_value = <<"D", "E", "F", "A", "U", "L", "T">>
    THEN IF Has(1)
           THEN LET value == ActualDefaultValue(tokens[idx + 1])
                IN IF value.kind = "ok"
                     THEN Step("DEFAULT", 2, idx + 1,
                               Ok(<<ConstraintDetail(DefaultData(value.value))>>))
                     ELSE Step("DEFAULT", 1, idx + 1, value)
           ELSE Step("DEFAULT", 1, idx, Ok(<<>>))
  ELSE Other(idx)

\* _extract_column_details(tokens): (name, sql_type_full, type_params,
\* constraints), or the exception int() raises
_extract_column_details(tokens) ==
  LET hasName == Len(tokens) >= 1 /\ ~InKeyword(tokens[1].ttype)
      name == IF hasName THEN PText(_clean_identifier(tokens[1].value)) ELSE None
      idx == IF hasName THEN 2 ELSE 1
      hasType == /\ idx <= Len(tokens)
                 /\ \/ InKeyword(tokens[idx].ttype)
                    \/ tokens[idx].cls \in {"Identifier", "Function"}
      sepParams == /\ hasType
                   /\ ~(tokens[idx].cls = "Function" /\ tokens[idx].has_params)
                   /\ idx + 1 <= Len(tokens)
                   /\ tokens[idx + 1].cls = "Parenthesis"
      param_str == IF sepParams THEN Strip(tokens[idx + 1].value, {"(", ")"}) ELSE <<>>
      pieces == Split(param_str, ",")
      type_params == IF sepParams
                       THEN [k \in 1..Len(pieces) |-> Strip(pieces[k], Whitespace)]
                       ELSE <<>>
      sql_type_full ==
        IF ~hasType THEN None
        ELSE IF sepParams
          THEN PText(tokens[idx].value \o <<"(">> \o param_str \o <<")">>)
          ELSE PText(tokens[idx].value)
      rest == IF ~hasType THEN idx ELSE IF sepParams THEN idx + 2 ELSE idx + 1
  IN Try(ColumnConstraints(tokens, rest, <<>>), LAMBDA constraints :
       Ok([name |-> name, sql_type_full |-> sql_type_full,
           type_params |-> type_params, constraints |-> constraints]))


\* _extract_type_and_params is called on lines 154 and 169 but defined
\* nowhere in the module: the call raises NameError.
_extract_type_and_params(sql_type) ==
  Raise("NameError", <<PStr("name '_extract_type_and_params' is not defined")>>)

\* Lines 152-157 and 167-172: one element of the parenthesis taken as a column.
TableElement(current_element_tokens, columns_isr) ==
  Try(_extract_column_details(current_element_tokens), LAMBDA d :
    IF Truthy(d.name) /\ Truthy(d.sql_type_full)
      THEN Try(_extract_type_and_params(d.sql_type_full.v), LAMBDA tp :
             LET type_p == IF d.type_params # <<>> THEN d.type_params
                           ELSE tp.actual_type_params
                 generic_type == _map_sql_type_to_generic(tp.base_sql_type, type_p)
             IN Ok(Append(columns_isr,
                          ColumnISR(d.name, PStr(generic_type), d.constraints, None))))
      ELSE Ok(columns_isr))

\* the `for token in tokens_in_parenthesis` loop of _parse_table_elements and
\* the processing of the last element
RECURSIVE TableElements(_, _, _, _, _)
TableElements(tokens, i, current_element_tokens, paren_level, columns_isr) ==
  IF i > Len(tokens)
    THEN IF current_element_tokens # <<>>
           THEN TableElement(current_element_tokens, columns_isr)
           ELSE Ok(columns_isr)
  ELSE LET token == tokens[i]
           level == IF token.value = <<"(">> THEN paren_level + 1
                    ELSE IF token.value = <<")">> THEN paren_level - 1
                    ELSE paren_level
       IN
    IF \/ is_whitespace(token)
       \/ /\ token.ttype = "Punctuation"
          /\ token.value \in {<<"(">>, <<")">>}
          /\ paren_level = 0
          /\ current_element_tokens = <<>>
      THEN TableElements(tokens, i + 1, current_element_tokens, paren_level, columns_isr)
    ELSE IF token.ttype = "Punctuation" /\ token.value = <<",">> /\ level = 0
      THEN IF current_element_tokens # <<>>
             THEN Try(TableElement(current_element_tokens, columns_isr), LAMBDA cols :
                    TableElements(tokens, i + 1, <<>>, level, cols))
             ELSE TableElements(tokens, i + 1, current_element_tokens, level, columns_isr)
    ELSE IF ~(is_whitespace(token) \/ is_comment(token))
      THEN TableElements(tokens, i + 1, Append(current_element_tokens, token),
                         level, columns_isr)
    ELSE TableElements(tokens, i + 1, current_element_tokens, level, columns_isr)

\* _parse_table_elements(tokens_in_parenthesis): (columns_isr,
\* table_constraints_isr); the second list is never filled
_parse_table_elements(tokens_in_parenthesis) ==
  Try(TableElements(tokens_in_parenthesis, 1, <<>>, 0, <<>>), LAMBDA cols :
    Ok([columns_isr |-> cols, table_constraints_isr |-> <<>>]))

\* stmt.get_type(): the upper-case text of the first token that is neither
\* whitespace nor comment when it is a DDL or DML keyword, else UNKNOWN
get_type(stmt) ==
  LET NotBlank(t) == ~is_whitespace(t) /\ ~is_comment(t)
      tokens == SelectSeq(stmt, NotBlank)
  IN IF tokens # <<>> /\ tokens[1].ttype \in {"Keyword.DDL", "Keyword.DML"}
       THEN Upper(tokens[1].value)
       ELSE <<"U", "N", "K", "N", "O", "W", "N">>

\* the `while` of lines 194-196: skip keywords up to TABLE, VIEW, INDEX, ...
RECURSIVE SkipKeywords(_, _)
SkipKeywords(tokens, token_idx) ==
  IF /\ token_idx <= Len(tokens)
     /\ is_keyword(tokens[token_idx])
     /\ Upper(tokens[token_idx].value) \notin
          {<<"T", "A", "B", "L", "E">>, <<"V", "I", "E", "W">>, <<"I", "N", "D", "E", "X">>, <<"D", "A", "T", "A", "B", "A", "S", "E">>, <<"S", "C", "H", "E", "M", "A">>}
    THEN SkipKeywords(tokens, token_idx + 1)
    ELSE token_idx

\* the body of `for stmt in parsed_statements` for one statement: tables_isr
\* after it, or the exception raised in it
SqlStatement(stmt, tables_isr) ==
  IF get_type(stmt) # <<"C", "R", "E", "A", "T", "E">> THEN Ok(tables_isr)
  ELSE LET NotBlank(t) == ~is_whitespace(t) /\ ~is_comment(t)
           tokens == SelectSeq(stmt, NotBlank)
       IN
    IF ~match(tokens[1], "Keyword.DDL", <<"C", "R", "E", "A", "T", "E">>) THEN Ok(tables_isr)
    ELSE LET at_table == SkipKeywords(tokens, 2) IN
      IF at_table > Len(tokens) \/ ~match(tokens[at_table], "Keyword", <<"T", "A", "B", "L", "E">>)
        THEN Ok(tables_isr)
      ELSE LET at_name ==
                 IF /\ at_table + 1 <= Len(tokens)
                    /\ match(tokens[at_table + 1], "Keyword", <<"I", "F", " ", "N", "O", "T", " ", "E", "X", "I", "S", "T", "S">>)
                   THEN at_table + 2 ELSE at_table + 1
           IN
        IF at_name > Len(tokens) \/ ~IsTokenList(tokens[at_name]) THEN Ok(tables_isr)
        ELSE LET table_name == _clean_identifier(tokens[at_name].real_name)
                 parens == {k \in (at_name + 1)..Len(tokens) :
                              tokens[k].cls = "Parenthesis"}
             IN
          IF parens = {} THEN Ok(tables_isr)
          ELSE LET column_defs_parenthesis ==
                     tokens[CHOOSE k \in parens : \A j \in parens : k <= j]
                   Inner(t) == ~is_whitespace(t) /\ t.value \notin {<<"(">>, <<")">>}
                   inner_column_def_tokens ==
                     SelectSeq(column_defs_parenthesis.tokens, Inner)
               IN Try(_parse_table_elements(inner_column_def_tokens), LAMBDA elems :
                    IF elems.columns_isr # <<>>
                      THEN Ok(Append(tables_isr,
                                     TableISR(PText(table_name), elems.columns_isr, None)))
                      ELSE Ok(tables_isr))

RECURSIVE SqlStatements(_, _, _)
SqlStatements(parsed_statements, i, tables_isr) ==
  IF i > Len(parsed_statements) THEN Ok(tables_isr)
  ELSE Try(SqlStatement(parsed_statements[i], tables_isr), LAMBDA tabs :
         SqlStatements(parsed_statements, i + 1, tabs))

\* parse_sql_ddl_input(sql_ddl), on what sqlparse.parse(sql_ddl) returned
parse_sql_ddl_input(parsed_statements) ==
  Try(SqlStatements(parsed_statements, 1, <<>>), LAMBDA tabs :
    Ok(SchemaISR(tabs, None, None)))


-----------------------------------------------------------------------------
(* parsers/python_orm_parser.py.  ast is a library: the tree ast.parse     *)
(* returns is the input of the model.  A node is a record with its class   *)
(* in `node` and the fields of that class; identifiers and str constants   *)
(* are texts.                                                              *)

Name(id) == [node |-> "Name", id |-> id]

Attribute(value, attr) == [node |-> "Attribute", value |-> value, attr |-> attr]

Constant(value) == [node |-> "Constant", value |-> value]

Call(func, arguments, keywords) ==
  [node |-> "Call", func |-> func, args |-> arguments, keywords |-> keywords]

keyword(arg, value) == [arg |-> arg, value |-> value]

Subscript(value, slice) == [node |-> "Subscript", value |-> value, slice |-> slice]

ListNode(elts) == [node |-> "List", elts |-> elts]

\* a field that holds no node (AnnAssign.value of `x: int`)
NoNode == [node |-> "None"]

Assign(targets, value) == [node |-> "Assign", targets |-> targets, value |-> value]

AnnAssign(target, annotation, value) ==
  [node |-> "AnnAssign", target |-> target, annotation |-> annotation, value |-> value]

Expr(value) == [node |-> "Expr", value |-> value]

ClassDef(name, bases, body) ==
  [node |-> "ClassDef", name |-> name, bases |-> bases, body |-> body]

FunctionDef(name, body) == [node |-> "FunctionDef", name |-> name, body |-> body]

\* _map_sqlalchemy_type_to_generic(sqla_type_name, type_args)
_map_sqlalchemy_type_to_generic(sqla_type_name) ==
  LET u == Upper(sqla_type_name) IN
  IF u \in {<<"I", "N", "T", "E", "G", "E", "R">>, <<"S", "M", "A", "L", "L", "I", "N", "T", "E", "G", "E", "R">>, <<"B", "I", "G", "I", "N", "T", "E", "G", "E", "R">>, <<"I", "N", "T">>}
    THEN IF Contains(u, <<"B", "I", "G", "I", "N", "T", "E", "G", "E", "R">>) \/ Contains(u, <<"B", "I", "G", "I", "N", "T">>)
           THEN "BIG_INTEGER" ELSE "INTEGER"
  ELSE IF u \in {<<"S", "T", "R", "I", "N", "G">>, <<"T", "E", "X", "T">>, <<"U", "N", "I", "C", "O", "D", "E">>, <<"U", "N", "I", "C", "O", "D", "E", "T", "E", "X", "T">>, <<"N", "V", "A", "R", "C", "H", "A", "R">>,
                 <<"V", "A", "R", "C", "H", "A", "R">>, <<"C", "H", "A", "R">>}
    THEN IF Contains(u, <<"T", "E", "X", "T">>) \/ Contains(u, <<"C", "L", "O", "B">>) THEN "TEXT" ELSE "STRING"
  ELSE IF u \in {<<"F", "L", "O", "A", "T">>, <<"R", "E", "A", "L">>, <<"D", "O", "U", "B", "L", "E", "_", "P", "R", "E", "C", "I", "S", "I", "O", "N">>, <<"D", "O", "U", "B", "L", "E">>} THEN "FLOAT"
  ELSE IF u = <<"N", "U", "M", "E", "R", "I", "C">> \/ u = <<"D", "E", "C", "I", "M", "A", "L">> THEN "DECIMAL"
  ELSE IF u = <<"B", "O", "O", "L", "E", "A", "N">> \/ u = <<"B", "O", "O", "L">> THEN "BOOLEAN"
  ELSE IF u = <<"D", "A", "T", "E">> THEN "DATE"
  ELSE IF u = <<"D", "A", "T", "E", "T", "I", "M", "E">> THEN "DATETIME"
  ELSE IF u = <<"T", "I", "M", "E", "S", "T", "A", "M", "P">> THEN "TIMESTAMP"
  ELSE IF u \in {<<"B", "L", "O", "B">>, <<"B", "I", "N", "A", "R", "Y">>, <<"L", "A", "R", "G", "E", "B", "I", "N", "A", "R", "Y">>, <<"V", "A", "R", "B", "I", "N", "A", "R", "Y">>, <<"B", "Y", "T", "E", "A">>}
    THEN "BLOB"
  ELSE IF u = <<"J", "S", "O", "N">> THEN "JSON_TYPE"
  ELSE IF u = <<"U", "U", "I", "D">> THEN "UUID_TYPE"
  ELSE IF u = <<"E", "N", "U", "M">> THEN "ENUM_TYPE"
  ELSE "STRING"

\* SQLAlchemyModelVisitor.__init__ as parse_python_orm_input calls it
base_class_names == {<<"B", "a", "s", "e">>, <<"D", "e", "c", "l", "a", "r", "a", "t", "i", "v", "e", "B", "a", "s", "e">>, <<"M", "o", "d", "e", "l">>, <<"B", "a", "s", "e", "M", "o", "d", "e", "l">>}

sqla_module_aliases == {<<"s", "a">>, <<"d", "b">>, <<"o", "r", "m">>, <<"s", "q", "l", "a", "l", "c", "h", "e", "m", "y">>, <<"s", "o">>}

IsNamed(n, ids) == n.node = "Name" /\ n.id \in ids

\* _is_sqlalchemy_base accepting every class that names a base
is_any_base(class) == class.bases # <<>>

\* _is_sqlalchemy_base(self, node)
_is_sqlalchemy_base(class) ==
  \E i \in 1..Len(class.bases) :
    LET base == class.bases[i] IN
    \/ IsNamed(base, base_class_names)
    \/ /\ base.node = "Attribute"
       /\ IsNamed(base.value, sqla_module_aliases)
       /\ base.attr = <<"M", "o", "d", "e", "l">>

\* type(node).__name__
TypeName(n) ==
  CASE n.node = "Name" -> <<"N", "a", "m", "e">>
    [] n.node = "Attribute" -> <<"A", "t", "t", "r", "i", "b", "u", "t", "e">>
    [] n.node = "Call" -> <<"C", "a", "l", "l">>
    [] n.node = "Subscript" -> <<"S", "u", "b", "s", "c", "r", "i", "p", "t">>
    [] OTHER -> <<"A", "S", "T">>

\* _get_ast_literal_value(self, node): the value of a constant, the list of
\* the values of a list display, "AST_NODE:<class>" for any other node
RECURSIVE _get_ast_literal_value(_)
_get_ast_literal_value(n) ==
  IF n.node = "None" THEN None
  ELSE IF n.node = "Constant" THEN n.value
  ELSE IF n.node = "List"
    THEN PList([k \in 1..Len(n.elts) |-> _get_ast_literal_value(n.elts[k])])
  ELSE PText(<<"A", "S", "T", "_", "N", "O", "D", "E", ":">> \o TypeName(n))

IsStr(val) == val.t = "text"

IsTrue(val) == val.t = "bool" /\ val.v

IsFalse(val) == val.t = "bool" /\ ~val.v

HasDot(s) == \E i \in 1..Len(s) : s[i] = "."

\* s.split(".", 1) of a text with a dot
FirstDot(s) == CHOOSE i \in 1..Len(s) : s[i] = "." /\ \A j \in 1..(i - 1) : s[j] # "."

BeforeDot(s) == SubSeq(s, 1, FirstDot(s) - 1)

AfterDot(s) == SubSeq(s, FirstDot(s) + 1, Len(s))

\* {"type": "FOREIGN_KEY", "details": {"references_table": ...,
\*  "references_column": ...}} (lines 158 and 195)
ForeignKeyData(fk_target) ==
  Entry("type", PStr("FOREIGN_KEY"))
    \o Entry("details",
             PDict(Entry("references_table", PText(BeforeDot(fk_target)))
                   \o Entry("references_column", PText(AfterDot(fk_target)))))

\* {"type": "ENUM_VALUES", "details": {"values": [...]}} (line 180)
EnumValuesData(values) ==
  Entry("type", PStr("ENUM_VALUES")) \o Entry("details", PDict(Entry("values", PList(values))))

\* is_col_def_call (lines 98-104)
IsColDefCall(func_node) ==
  \/ IsNamed(func_node, {<<"C", "o", "l", "u", "m", "n">>, <<"m", "a", "p", "p", "e", "d", "_", "c", "o", "l", "u", "m", "n">>})
  \/ /\ func_node.node = "Attribute"
     /\ IsNamed(func_node.value, sqla_module_aliases)
     /\ func_node.attr \in {<<"C", "o", "l", "u", "m", "n">>, <<"m", "a", "p", "p", "e", "d", "_", "c", "o", "l", "u", "m", "n">>}

\* step 1 (lines 111-133): generic_type after the annotation
AnnotationType(annotation) ==
  LET ann_node == IF /\ annotation.node = "Subscript"
                     /\ IsNamed(annotation.value, {<<"M", "a", "p", "p", "e", "d">>, <<"O", "p", "t", "i", "o", "n", "a", "l">>})
                    THEN annotation.slice ELSE annotation
  IN IF ann_node.node = "Name"
       THEN CASE ann_node.id = <<"i", "n", "t">> -> "INTEGER"
              [] ann_node.id = <<"s", "t", "r">> -> "STRING"
              [] ann_node.id = <<"f", "l", "o", "a", "t">> -> "FLOAT"
              [] ann_node.id = <<"b", "o", "o", "l">> -> "BOOLEAN"
              [] ann_node.id = <<"d", "a", "t", "e", "t", "i", "m", "e">> -> "DATETIME"
              [] OTHER -> _map_sqlalchemy_type_to_generic(ann_node.id)
     ELSE IF ann_node.node = "Attribute" /\ ann_node.value.node = "Name"
       THEN _map_sqlalchemy_type_to_generic(ann_node.attr)
     ELSE "STRING"

\* is_fk_call and type_arg_node.args (lines 142-149)
IsForeignKeyType(type_arg_node) ==
  /\ type_arg_node.node = "Call"
  /\ \/ IsNamed(type_arg_node.func, {<<"F", "o", "r", "e", "i", "g", "n", "K", "e", "y">>})
     \/ type_arg_node.func.node = "Attribute" /\ type_arg_node.func.attr = <<"F", "o", "r", "e", "i", "g", "n", "K", "e", "y">>
  /\ type_arg_node.args # <<>>

\* sqla_type_name of a type argument (lines 161-169); "" when none is found
SqlaTypeName(type_arg_node) ==
  LET Dotted(n) == IF n.node = "Name" THEN n.id
                   ELSE IF n.node = "Attribute" /\ n.value.node = "Name"
                     THEN n.value.id \o <<".">> \o n.attr
                   ELSE <<>>
  IN IF type_arg_node.node = "Call" THEN Dotted(type_arg_node.func)
     ELSE Dotted(type_arg_node)

\* type_params_vals (line 171)
TypeParamsVals(type_arg_node) ==
  IF type_arg_node.node = "Call"
    THEN [k \in 1..Len(type_arg_node.args) |->
            _get_ast_literal_value(type_arg_node.args[k])]
    ELSE <<>>

\* step 2 (lines 137-180): generic_type and constraints_isr after the first
\* positional argument of the call
TypeArgStage(call, generic_type) ==
  IF call.args = <<>> THEN [generic_type |-> generic_type, constraints_isr |-> <<>>]
  ELSE LET type_arg_node == call.args[1] IN
    IF IsForeignKeyType(type_arg_node)
      THEN LET fk_target == _get_ast_literal_value(type_arg_node.args[1]) IN
           IF IsStr(fk_target) /\ HasDot(fk_target.v)
             THEN [generic_type |-> IF generic_type \in {"STRING", "UNKNOWN_TYPE"}
                                      THEN "INTEGER" ELSE generic_type,
                   constraints_isr |-> <<ConstraintDetail(ForeignKeyData(fk_target.v))>>]
             ELSE [generic_type |-> generic_type, constraints_isr |-> <<>>]
    ELSE IF SqlaTypeName(type_arg_node) # <<>>
      THEN LET mapped == _map_sqlalchemy_type_to_generic(SqlaTypeName(type_arg_node))
               enum_actual_values == SelectSeq(TypeParamsVals(type_arg_node), IsStr)
           IN [generic_type |-> mapped,
               constraints_isr |->
                 IF mapped = "ENUM_TYPE" /\ enum_actual_values # <<>>
                   THEN <<ConstraintDetail(EnumValuesData(enum_actual_values))>>
                   ELSE <<>>]
    ELSE [generic_type |-> generic_type, constraints_isr |-> <<>>]

\* step 3 (lines 184-195): the constraints one keyword argument adds
KeywordConstraint(kw) ==
  LET val == _get_ast_literal_value(kw.value) IN
  IF kw.arg = <<"p", "r", "i", "m", "a", "r", "y", "_", "k", "e", "y">> /\ IsTrue(val)
    THEN <<ConstraintDetail(TypeOnly("PRIMARY_KEY"))>>
  ELSE IF kw.arg = <<"n", "u", "l", "l", "a", "b", "l", "e">> /\ IsFalse(val)
    THEN <<ConstraintDetail(TypeOnly("NOT_NULL"))>>
  ELSE IF kw.arg = <<"u", "n", "i", "q", "u", "e">> /\ IsTrue(val)
    THEN <<ConstraintDetail(TypeOnly("UNIQUE"))>>
  ELSE IF kw.arg = <<"a", "u", "t", "o", "i", "n", "c", "r", "e", "m", "e", "n", "t">> /\ IsTrue(val)
    THEN <<ConstraintDetail(TypeOnly("AUTO_INCREMENT"))>>
  ELSE IF kw.arg = <<"d", "e", "f", "a", "u", "l", "t">> /\ val.t # "null"
    THEN <<ConstraintDetail(DefaultData(val))>>
  ELSE IF kw.arg = <<"c", "o", "m", "m", "e", "n", "t">> /\ IsStr(val) THEN <<>>
  ELSE IF kw.arg = <<"f", "o", "r", "e", "i", "g", "n", "_", "k", "e", "y">> /\ IsStr(val) /\ HasDot(val.v)
    THEN <<ConstraintDetail(ForeignKeyData(val.v))>>
  ELSE <<>>

RECURSIVE KeywordConstraints(_)
KeywordConstraints(keywords) ==
  IF keywords = <<>> THEN <<>>
  ELSE KeywordConstraint(Head(keywords)) \o KeywordConstraints(Tail(keywords))

\* col_comment after the keyword loop: the last comment="..." keyword
RECURSIVE KeywordComment(_, _)
KeywordComment(keywords, col_comment) ==
  IF keywords = <<>> THEN col_comment
  ELSE LET kw == Head(keywords)
           val == _get_ast_literal_value(kw.value)
       IN KeywordComment(Tail(keywords),
            IF kw.arg = <<"c", "o", "m", "m", "e", "n", "t">> /\ IsStr(val)
              THEN val ELSE col_comment)

\* the ColumnISR appended on line 197
ColumnOf(col_name, call, stage) ==
  ColumnISR(PText(col_name), PStr(stage.generic_type),
            stage.constraints_isr \o KeywordConstraints(call.keywords),
            KeywordComment(call.keywords, None))

\* _parse_column_assignment(self, node): _current_table_columns after the
\* call.  An ast.Assign has no attribute `target` (line 93) and an
\* ast.AnnAssign no attribute `targets` (line 94).
_parse_column_assignment(n, columns) ==
  IF n.node = "Assign"
    THEN Raise("AttributeError", <<PStr("'Assign' object has no attribute 'target'")>>)
  ELSE IF n.target.node # "Name"
    THEN Raise("AttributeError", <<PStr("'AnnAssign' object has no attribute 'targets'")>>)
  ELSE IF n.target.id = <<>> \/ n.value.node # "Call" THEN Ok(columns)
  ELSE IF ~IsColDefCall(n.value.func) THEN Ok(columns)
  ELSE Ok(Append(columns,
                 ColumnOf(n.target.id, n.value,
                          TypeArgStage(n.value, AnnotationType(n.annotation)))))


\* ast.get_docstring(node): the str constant that is the first statement
get_docstring(class) ==
  IF /\ class.body # <<>>
     /\ class.body[1].node = "Expr"
     /\ class.body[1].value.node = "Constant"
     /\ IsStr(class.body[1].value.value)
    THEN class.body[1].value.value
    ELSE None

\* the `for item in node.body` loop of visit_ClassDef (lines 73-79): the
\* table name and the columns after it.  The second branch is written as in
\* the code: an ast.Assign is always taken by the first one.
RECURSIVE ClassBody(_, _, _, _)
ClassBody(body, i, table_name, columns) ==
  IF i > Len(body)
    THEN Ok([_current_table_name |-> table_name, _current_table_columns |-> columns])
  ELSE LET item == body[i] IN
    IF item.node = "Assign"
      THEN IF /\ Len(item.targets) = 1
              /\ IsNamed(item.targets[1], {<<"_", "_", "t", "a", "b", "l", "e", "n", "a", "m", "e", "_", "_">>})
              /\ IsStr(_get_ast_literal_value(item.value))
             THEN ClassBody(body, i + 1, _get_ast_literal_value(item.value).v, columns)
             ELSE ClassBody(body, i + 1, table_name, columns)
    ELSE IF item.node \in {"Assign", "AnnAssign"}
      THEN Try(_parse_column_assignment(item, columns), LAMBDA cols :
             ClassBody(body, i + 1, table_name, cols))
    ELSE ClassBody(body, i + 1, table_name, columns)

RECURSIVE visit_ClassDef(_, _)
RECURSIVE VisitAll(_, _, _)

\* NodeVisitor.generic_visit(node): visit the child nodes; classes are found
\* in the body of a class or a function
generic_visit(n, tables_isr) == VisitAll(n.body, 1, tables_isr)

\* NodeVisitor.visit(node)
visit(n, tables_isr) ==
  IF n.node = "ClassDef" THEN visit_ClassDef(n, tables_isr)
  ELSE IF n.node = "FunctionDef" THEN generic_visit(n, tables_isr)
  ELSE Ok(tables_isr)

VisitAll(stmts, i, tables_isr) ==
  IF i > Len(stmts) THEN Ok(tables_isr)
  ELSE Try(visit(stmts[i], tables_isr), LAMBDA tabs : VisitAll(stmts, i + 1, tabs))

\* visit_ClassDef(self, node): tables_isr after the visit
visit_ClassDef(class, tables_isr) ==
  IF ~_is_sqlalchemy_base(class) THEN generic_visit(class, tables_isr)
  ELSE Try(ClassBody(class.body, 1, class.name, <<>>), LAMBDA cur :
         generic_visit(class,
           IF cur._current_table_name # <<>> /\ cur._current_table_columns # <<>>
             THEN Append(tables_isr,
                         TableISR(PText(cur._current_table_name),
                                  cur._current_table_columns, get_docstring(class)))
             ELSE tables_isr))

\* A text handed to ast.parse: either a SyntaxError or the Module's body.
PyText(valid, body) == [valid |-> valid, body |-> body]

\* parse_python_orm_input(python_code, orm_type)
parse_python_orm_input(python_code, orm_type) ==
  IF Lower(orm_type) # <<"s", "q", "l", "a", "l", "c", "h", "e", "m", "y">>
    THEN Raise("NotImplementedError",
               <<PStr("ORM type"), PText(orm_type), PStr("not supported.")>>)
  ELSE IF ~python_code.valid
    THEN Raise("ValueError", <<PStr("Invalid Python syntax")>>)
  ELSE Try(VisitAll(python_code.body, 1, <<>>), LAMBDA tabs :
         Ok(SchemaISR(tabs, None, None)))


-----------------------------------------------------------------------------
(* parsers/csv_parser.py                                                   *)

\* ''.join(c for c in name if c.isalnum() or c == '_')
KeepIdentifierChars(name) == SelectSeq(name, LAMBDA c : IsAlnum(c) \/ c = "_")

\* _clean_csv_header(header_name): header_name is None or a text
_clean_csv_header(header_name) ==
  IF header_name.t = "null" THEN <<"u", "n", "n", "a", "m", "e", "d", "_", "c", "o", "l", "u", "m", "n">>
  ELSE IF header_name.v = <<>> THEN <<"u", "n", "n", "a", "m", "e", "d", "_", "c", "o", "l", "u", "m", "n">>
  ELSE LET stripped == Strip(Strip(header_name.v, Whitespace), {"'", "\""})
           replaced == Replace(Replace(Replace(Replace(stripped, " ", "_"),
                                               "-", "_"), ".", "_"), "/", "_")
           kept == KeepIdentifierChars(replaced)
           prefixed == IF kept # <<>> /\ kept[1] \in Digits
                         THEN <<"_">> \o kept ELSE kept
           name == Join(FilterNonEmpty(Split(prefixed, "_")), "_")
       IN IF name # <<>> THEN name ELSE <<"u", "n", "n", "a", "m", "e", "d", "_", "c", "o", "l", "u", "m", "n">>


\* the default of _infer_column_type's sample_size parameter
sample_size == 100

\* the size of the sample parse_csv_input reads for sniffing:
\* file_like_object.read(2048)
sniff_sample_chars == 2048

\* digits with single underscores between them: the digit part of an
\* int() / float() literal
DigitPart(s) ==
  /\ s # <<>>
  /\ s[1] \in Digits
  /\ s[Len(s)] \in Digits
  /\ \A i \in 1..Len(s) : s[i] \in Digits \cup {"_"}
  /\ \A i \in 1..(Len(s) - 1) : ~(s[i] = "_" /\ s[i + 1] = "_")

Unsigned(s) == IF s # <<>> /\ Head(s) \in {"+", "-"} THEN Tail(s) ELSE s

\* int(value_str) raises no ValueError
int_parses(value_str) == DigitPart(Unsigned(Strip(value_str, Whitespace)))

\* digits, or digits with one point and digits on at least one side of it
Mantissa(m) ==
  \/ DigitPart(m)
  \/ \E i \in 1..Len(m) :
       /\ m[i] = "."
       /\ LET a == SubSeq(m, 1, i - 1)
              b == SubSeq(m, i + 1, Len(m))
          IN /\ a = <<>> \/ DigitPart(a)
             /\ b = <<>> \/ DigitPart(b)
             /\ a # <<>> \/ b # <<>>

\* float(value_str) raises no ValueError
float_parses(value_str) ==
  LET body == Unsigned(Strip(value_str, Whitespace)) IN
  \/ Lower(body) \in {<<"i", "n", "f">>, <<"i", "n", "f", "i", "n", "i", "t", "y">>, <<"n", "a", "n">>}
  \/ Mantissa(body)
  \/ \E i \in 1..Len(body) :
       /\ body[i] \in {"e", "E"}
       /\ Mantissa(SubSeq(body, 1, i - 1))
       /\ DigitPart(Unsigned(SubSeq(body, i + 1, Len(body))))

bool_keywords ==
  {<<"t", "r", "u", "e">>, <<"f", "a", "l", "s", "e">>, <<"y", "e", "s">>, <<"n", "o">>, <<"t">>, <<"f">>, <<"y">>, <<"n">>,
   <<"1">>, <<"0">>, <<"o", "n">>, <<"o", "f", "f">>}

\* v is not None and v.strip()
NonEmptyValue(v) == v.t # "null" /\ Strip(v.v, Whitespace) # <<>>

\* seq[:n]
Take(seq, n) == SubSeq(seq, 1, IF Len(seq) < n THEN Len(seq) ELSE n)

\* the `for value_str in sampled_values` loop of _infer_column_type: the
\* three flags after it
RECURSIVE InferLoop(_, _, _, _, _)
InferLoop(sampled_values, i, is_int, is_float, is_bool) ==
  IF i > Len(sampled_values)
    THEN [is_int |-> is_int, is_float |-> is_float, is_bool |-> is_bool]
  ELSE LET value_str == sampled_values[i].v
           int2 == is_int /\ int_parses(value_str)
           float2 == is_float /\ float_parses(value_str)
           bool2 == is_bool /\ Lower(value_str) \in bool_keywords
       IN IF ~int2 /\ ~float2 /\ ~bool2
            THEN [is_int |-> FALSE, is_float |-> FALSE, is_bool |-> FALSE]
            ELSE InferLoop(sampled_values, i + 1, int2, float2, bool2)


\* _infer_column_type with the flags tested in the order bool, int, float
infer_bool_first(values, size) ==
  LET sampled_values == Take(SelectSeq(values, NonEmptyValue), size) IN
  IF sampled_values = <<>> THEN "STRING"
  ELSE LET flags == InferLoop(sampled_values, 1, TRUE, TRUE, TRUE) IN
       IF flags.is_bool THEN "BOOLEAN"
       ELSE IF flags.is_int THEN "INTEGER"
       ELSE IF flags.is_float THEN "FLOAT"
       ELSE "STRING"

\* _infer_column_type(values, sample_size)
_infer_column_type(values, size) ==
  LET sampled_values == Take(SelectSeq(values, NonEmptyValue), size) IN
  IF sampled_values = <<>> THEN "STRING"
  ELSE LET flags == InferLoop(sampled_values, 1, TRUE, TRUE, TRUE) IN
       IF flags.is_int THEN "INTEGER"
       ELSE IF flags.is_float THEN "FLOAT"
       ELSE IF flags.is_bool THEN "BOOLEAN"
       ELSE "STRING"


\* str(n) of a non-negative int
RECURSIVE str_int(_)
str_int(n) ==
  IF n < 10 THEN <<DigitSeq[n + 1]>>
  ELSE str_int(n \div 10) \o <<DigitSeq[(n % 10) + 1]>>


\* name_counts[name] = count that leaves a count already stored alone
PutCount_first_only(name_counts, name, count) ==
  IF HasKey(name_counts, name) THEN name_counts
  ELSE Append(name_counts, <<name, count>>)

\* name_counts[name] = count
PutCount(name_counts, name, count) ==
  IF HasKey(name_counts, name)
    THEN [k \in 1..Len(name_counts) |->
            IF name_counts[k][1] = name THEN <<name, count>> ELSE name_counts[k]]
    ELSE Append(name_counts, <<name, count>>)

\* the duplicate-name loop of parse_csv_input (lines 133-141):
\* final_column_names after it
RECURSIVE FinalColumnNames(_, _, _, _)
FinalColumnNames(column_names, i, name_counts, final_column_names) ==
  IF i > Len(column_names) THEN final_column_names
  ELSE LET name == column_names[i] IN
    IF HasKey(name_counts, name)
      THEN LET count == Get(name_counts, name) + 1 IN
           FinalColumnNames(column_names, i + 1, PutCount(name_counts, name, count),
                            Append(final_column_names, name \o <<"_">> \o str_int(count)))
      ELSE FinalColumnNames(column_names, i + 1, PutCount(name_counts, name, 0),
                            Append(final_column_names, name))

\* columns_data[i] (lines 153-157): the i-th cells of the rows that have one
ColumnData(data_rows, i) ==
  LET having == SelectSeq(data_rows, LAMBDA row : i <= Len(row))
  IN [k \in 1..Len(having) |-> having[k][i]]

\* A text handed to parse_csv_input, as the csv module reads it: blank (the
\* text is empty or whitespace-only), sample_blank (its first
\* sniff_sample_chars characters are), sniffs (csv.Sniffer().sniff finds a
\* dialect; if not, csv.Error sends the code to the default reader) and rows
\* (list(reader): the cells of each line).
CsvText(blank, sample_blank, sniffs, rows) ==
  [blank |-> blank, sample_blank |-> sample_blank, sniffs |-> sniffs, rows |-> rows]

\* parse_csv_input(csv_data, table_name_from_file)
parse_csv_input(csv_data, table_name_from_file) ==
  LET effective_table_name ==
        IF Truthy(table_name_from_file)
          THEN _clean_csv_header(table_name_from_file)
          ELSE <<"c", "s", "v", "_", "i", "m", "p", "o", "r", "t", "e", "d", "_", "t", "a", "b", "l", "e">>
      header == csv_data.rows[1]
      column_names ==
        FinalColumnNames([k \in 1..Len(header) |-> _clean_csv_header(PText(header[k]))],
                         1, <<>>, <<>>)
      data_rows == Tail(csv_data.rows)
      Table(columns_isr) ==
        Ok(SchemaISR(<<TableISR(PText(effective_table_name), columns_isr, None)>>,
                     None, None))
  IN IF csv_data.sample_blank THEN Ok(SchemaISR(<<>>, None, None))
     ELSE IF csv_data.rows = <<>> THEN Ok(SchemaISR(<<>>, None, None))
     ELSE IF \A k \in 1..Len(header) : Strip(header[k], Whitespace) = <<>>
       THEN Raise("ValueError",
                  <<PStr("CSV header row is missing, empty, or contains only whitespace.")>>)
     ELSE IF data_rows = <<>>
       THEN Table([k \in 1..Len(column_names) |->
                     ColumnISR(PText(column_names[k]), PStr("STRING"), <<>>, None)])
     ELSE Table([k \in 1..Len(column_names) |->
                   ColumnISR(PText(column_names[k]),
                             PStr(_infer_column_type(
                                    [j \in 1..Len(ColumnData(data_rows, k)) |->
                                       PText(ColumnData(data_rows, k)[j])],
                                    sample_size)),
                             <<>>, None)])


-----------------------------------------------------------------------------
(* adapters/postgresql_adapter.py.  Strings are texts; the ISR the adapter *)
(* reads has texts for names, generic types and constraint types.          *)

\* _clean_identifier(name) of the adapter (lines 207-210)
pg_clean_identifier(name) ==
  IF name.t = "null" THEN <<>> ELSE Strip(name.v, {Backtick, "\"", "'"})

\* c.type.upper() == type_upper for a constraint with a type
TypeIs(c, type_upper) == Upper(c.type.v) = type_upper

\* any(c.type.upper() == ... for c in col_isr.constraints if c.type)
AnyConstraint(col_isr, type_upper) ==
  \E k \in 1..Len(col_isr.constraints) :
    Truthy(col_isr.constraints[k].type) /\ TypeIs(col_isr.constraints[k], type_upper)

\* the mapping dict of _map_generic_type_to_postgresql (lines 39-45)
pg_mapping ==
  <<<<<<"S", "T", "R", "I", "N", "G">>, <<"V", "A", "R", "C", "H", "A", "R", "(", "2", "5", "5", ")">>>>, <<<<"T", "E", "X", "T">>, <<"T", "E", "X", "T">>>>, <<<<"I", "N", "T", "E", "G", "E", "R">>, <<"I", "N", "T", "E", "G", "E", "R">>>>,
    <<<<"B", "I", "G", "_", "I", "N", "T", "E", "G", "E", "R">>, <<"B", "I", "G", "I", "N", "T">>>>, <<<<"F", "L", "O", "A", "T">>, <<"R", "E", "A", "L">>>>,
    <<<<"D", "O", "U", "B", "L", "E", "_", "P", "R", "E", "C", "I", "S", "I", "O", "N">>, <<"D", "O", "U", "B", "L", "E", " ", "P", "R", "E", "C", "I", "S", "I", "O", "N">>>>, <<<<"D", "E", "C", "I", "M", "A", "L">>, <<"D", "E", "C", "I", "M", "A", "L", "(", "1", "0", ",", " ", "2", ")">>>>,
    <<<<"B", "O", "O", "L", "E", "A", "N">>, <<"B", "O", "O", "L", "E", "A", "N">>>>, <<<<"D", "A", "T", "E">>, <<"D", "A", "T", "E">>>>,
    <<<<"T", "I", "M", "E">>, <<"T", "I", "M", "E", " ", "W", "I", "T", "H", "O", "U", "T", " ", "T", "I", "M", "E", " ", "Z", "O", "N", "E">>>>,
    <<<<"D", "A", "T", "E", "T", "I", "M", "E">>, <<"T", "I", "M", "E", "S", "T", "A", "M", "P", " ", "W", "I", "T", "H", "O", "U", "T", " ", "T", "I", "M", "E", " ", "Z", "O", "N", "E">>>>,
    <<<<"T", "I", "M", "E", "S", "T", "A", "M", "P">>, <<"T", "I", "M", "E", "S", "T", "A", "M", "P", " ", "W", "I", "T", "H", " ", "T", "I", "M", "E", " ", "Z", "O", "N", "E">>>>, <<<<"B", "L", "O", "B">>, <<"B", "Y", "T", "E", "A">>>>,
    <<<<"J", "S", "O", "N", "_", "T", "Y", "P", "E">>, <<"J", "S", "O", "N", "B">>>>, <<<<"U", "U", "I", "D", "_", "T", "Y", "P", "E">>, <<"U", "U", "I", "D">>>>>>

\* _map_generic_type_to_postgresql(col_isr, custom_enum_types)
_map_generic_type_to_postgresql(col_isr, custom_enum_types) ==
  LET generic_type_upper == Upper(col_isr.generic_type.v)
      is_pk == AnyConstraint(col_isr, <<"P", "R", "I", "M", "A", "R", "Y", "_", "K", "E", "Y">>)
      is_auto_increment == AnyConstraint(col_isr, <<"A", "U", "T", "O", "_", "I", "N", "C", "R", "E", "M", "E", "N", "T">>)
  IN IF is_pk /\ is_auto_increment /\ generic_type_upper = <<"B", "I", "G", "_", "I", "N", "T", "E", "G", "E", "R">> THEN <<"B", "I", "G", "S", "E", "R", "I", "A", "L">>
     ELSE IF is_pk /\ is_auto_increment /\ generic_type_upper = <<"I", "N", "T", "E", "G", "E", "R">> THEN <<"S", "E", "R", "I", "A", "L">>
     ELSE IF generic_type_upper = <<"E", "N", "U", "M", "_", "T", "Y", "P", "E">>
       THEN <<"T", "E", "X", "T", " ", "/", "*", " ", "E", "N", "U", "M", ":", " ">> \o col_isr.name.v \o <<" ", "-", " ", "W", "i", "l", "l", " ", "b", "e", " ", "r", "e", "p", "l", "a", "c", "e", "d", " ", "b", "y", " ", "c", "u", "s", "t", "o", "m", " ", "t", "y", "p", "e", " ", "*", "/">>
     ELSE GetOr(pg_mapping, generic_type_upper, <<"T", "E", "X", "T">>)

\* str(value) of an int
str_num(n) == IF n < 0 THEN <<"-">> \o str_int(0 - n) ELSE str_int(n)

\* s.replace("'", "''")
RECURSIVE JoinText(_, _)
\* sep.join(parts) for a separator of any length
JoinText(parts, sep) ==
  IF parts = <<>> THEN <<>>
  ELSE IF Len(parts) = 1 THEN parts[1]
  ELSE parts[1] \o sep \o JoinText(Tail(parts), sep)

\* s.replace("'", "''")
EscapeQuotes(s) == JoinText(Split(s, "'"), <<"'", "'">>)

\* '"' + s + '"'
Quoted(s) == <<"\"">> \o s \o <<"\"">>

\* the DEFAULT branch of _get_column_constraints_ddl (lines 70-82): the parts
\* it appends
DefaultParts(constraint) ==
  IF constraint.details = <<>> THEN <<>>
  ELSE LET value == Get(constraint.details, "value") IN
    IF value.t = "text"
      THEN IF Upper(value.v) = <<"C", "U", "R", "R", "E", "N", "T", "_", "T", "I", "M", "E", "S", "T", "A", "M", "P">> \/ StartsWith(Upper(value.v), <<"N", "O", "W", "(", ")">>)
             THEN <<<<"D", "E", "F", "A", "U", "L", "T", " ">> \o Upper(value.v)>>
             ELSE <<<<"D", "E", "F", "A", "U", "L", "T", " ", "'">> \o EscapeQuotes(value.v) \o <<"'">> >>
    ELSE IF value.t = "bool"
      THEN <<<<"D", "E", "F", "A", "U", "L", "T", " ">> \o (IF value.v THEN <<"T", "R", "U", "E">> ELSE <<"F", "A", "L", "S", "E">>)>>
    ELSE IF value.t = "number" THEN <<<<"D", "E", "F", "A", "U", "L", "T", " ">> \o str_num(value.v)>>
    ELSE <<>>


RECURSIVE ConstraintParts_pg(_, _, _)
\* for constraint in col_isr.constraints (lines 54-82): the parts appended
ConstraintParts_pg(col_isr, is_serial_type, i) ==
  IF i > Len(col_isr.constraints) THEN <<>>
  ELSE LET constraint == col_isr.constraints[i]
           ctype == IF Truthy(constraint.type) THEN Upper(constraint.type.v) ELSE <<>>
           parts ==
             IF ctype = <<"P", "R", "I", "M", "A", "R", "Y", "_", "K", "E", "Y">>
               THEN IF ~is_serial_type THEN <<<<"P", "R", "I", "M", "A", "R", "Y", " ", "K", "E", "Y">>>> ELSE <<>>
             ELSE IF ctype = <<"N", "O", "T", "_", "N", "U", "L", "L">>
               THEN IF ~is_serial_type THEN <<<<"N", "O", "T", " ", "N", "U", "L", "L">>>> ELSE <<>>
             ELSE IF ctype = <<"U", "N", "I", "Q", "U", "E">>
               THEN IF ~AnyConstraint(col_isr, <<"P", "R", "I", "M", "A", "R", "Y", "_", "K", "E", "Y">>) THEN <<<<"U", "N", "I", "Q", "U", "E">>>> ELSE <<>>
             ELSE IF ctype = <<"D", "E", "F", "A", "U", "L", "T">> THEN DefaultParts(constraint)
             ELSE <<>>
       IN parts \o ConstraintParts_pg(col_isr, is_serial_type, i + 1)

\* _get_column_constraints_ddl(col_isr, pg_type): pg_type.upper() is taken
\* first (line 51), which only a str has
_get_column_constraints_ddl(col_isr, pg_type) ==
  IF pg_type.t # "text"
    THEN Raise("AttributeError", <<PStr("object has no attribute 'upper'"), PStr(pg_type.t)>>)
    ELSE LET is_serial_type == Contains(Upper(pg_type.v), <<"S", "E", "R", "I", "A", "L">>)
         IN Ok(PText(JoinText(ConstraintParts_pg(col_isr, is_serial_type, 1), <<" ">>)))

\* f"enum_{_clean_identifier(table_isr.name)}_{_clean_identifier(col_isr.name)}".lower()
EnumTypeName(table_isr, col_isr) ==
  Lower(<<"e", "n", "u", "m", "_">> \o pg_clean_identifier(table_isr.name) \o <<"_">>
        \o pg_clean_identifier(col_isr.name))

RECURSIVE FirstEnumValues(_, _)
\* next((c for c in col_isr.constraints if c.type.upper() == "ENUM_VALUES"), None)
\* (line 103): a constraint without a type met on the way has no upper()
FirstEnumValues(constraints, i) ==
  IF i > Len(constraints) THEN Ok(None)
  ELSE IF constraints[i].type.t # "text"
    THEN Raise("AttributeError",
               <<PStr("object has no attribute 'upper'"), PStr(constraints[i].type.t)>>)
  ELSE IF TypeIs(constraints[i], <<"E", "N", "U", "M", "_", "V", "A", "L", "U", "E", "S">>) THEN Ok(constraints[i])
  ELSE FirstEnumValues(constraints, i + 1)

\* ", ".join([f"'{str(val).replace("'", "''")}'" for val in enum_vals]) (line 110)
FormattedEnumValues(enum_vals) ==
  JoinText([k \in 1..Len(enum_vals) |-> <<"'">> \o EscapeQuotes(enum_vals[k].v) \o <<"'">>],
           <<",", " ">>)

RECURSIVE EnumPass(_, _, _, _)
\* Pass 1 (lines 99-111): enum_type_creations, a dict from type name to its
\* CREATE TYPE statement, in insertion order
EnumPass(tables, i, j, enum_type_creations) ==
  IF i > Len(tables) THEN Ok(enum_type_creations)
  ELSE IF j > Len(tables[i].columns) THEN EnumPass(tables, i + 1, 1, enum_type_creations)
  ELSE LET table_isr == tables[i]
           col_isr == table_isr.columns[j]
       IN IF Upper(col_isr.generic_type.v) # <<"E", "N", "U", "M", "_", "T", "Y", "P", "E">>
            THEN EnumPass(tables, i, j + 1, enum_type_creations)
            ELSE Try(FirstEnumValues(col_isr.constraints, 1), LAMBDA enum_values_detail :
              IF enum_values_detail = None
                 \/ ~IsList(Get(enum_values_detail.details, "values"))
                 \/ ~Truthy(Get(enum_values_detail.details, "values"))
                 \/ HasKey(enum_type_creations, EnumTypeName(table_isr, col_isr))
                THEN EnumPass(tables, i, j + 1, enum_type_creations)
                ELSE EnumPass(tables, i, j + 1,
                       Append(enum_type_creations,
                         <<EnumTypeName(table_isr, col_isr),
                           <<"C", "R", "E", "A", "T", "E", " ", "T", "Y", "P", "E", " ">> \o Quoted(EnumTypeName(table_isr, col_isr))
                           \o <<" ", "A", "S", " ", "E", "N", "U", "M", " ", "(">>
                           \o FormattedEnumValues(Get(enum_values_detail.details, "values").v)
                           \o <<")", ";">>>>)))


\* the characters of the texts in code point order
CodePointOrder ==
  <<"\t", "\n", "\r", " ", "!", "\"", "#", "$", "%", "&", "'", "(", ")", "*", "+", ",", "-", ".", "/", "0", "1", "2", "3", "4", "5", "6", "7", "8", "9", ":", ";", "<", "=", ">", "?", "@", "A", "B", "C", "D", "E", "F", "G", "H", "I", "J", "K", "L", "M", "N", "O", "P", "Q", "R", "S", "T", "U", "V", "W", "X", "Y", "Z", "[", "\\", "]", "^", "_",
    Backtick, "a", "b", "c", "d", "e", "f", "g", "h", "i", "j", "k", "l", "m", "n", "o", "p", "q", "r", "s", "t", "u", "v", "w", "x", "y", "z", "{", "|", "}", "~">>

\* ord(c), up to an order-preserving renumbering
Ord(c) == CHOOSE k \in 1..Len(CodePointOrder) : CodePointOrder[k] = c

RECURSIVE TextLess(_, _)
\* a < b for two str
TextLess(a, b) ==
  IF b = <<>> THEN FALSE
  ELSE IF a = <<>> THEN TRUE
  ELSE IF Head(a) = Head(b) THEN TextLess(Tail(a), Tail(b))
  ELSE Ord(Head(a)) < Ord(Head(b))

RECURSIVE InsertSorted(_, _)
InsertSorted(sorted_texts, x) ==
  IF sorted_texts = <<>> THEN <<x>>
  ELSE IF TextLess(x, Head(sorted_texts)) THEN <<x>> \o sorted_texts
  ELSE <<Head(sorted_texts)>> \o InsertSorted(Tail(sorted_texts), x)

RECURSIVE sorted(_)
\* sorted(texts)
sorted(texts) ==
  IF texts = <<>> THEN <<>>
  ELSE InsertSorted(sorted(SubSeq(texts, 1, Len(texts) - 1)), texts[Len(texts)])

\* the foreign key statement of one constraint (lines 152-170): a list of no
\* or one ALTER TABLE statement
ForeignKeyStatements(table_isr, col_isr, constraint) ==
  LET details == constraint.details
      fk_name == GetOr(details, "name",
                       PText(<<"f", "k", "_">> \o pg_clean_identifier(table_isr.name) \o <<"_">>
                             \o pg_clean_identifier(col_isr.name)))
      ref_table == pg_clean_identifier(GetOr(details, "references_table", PText(<<>>)))
      ref_cols_list == GetOr(details, "references_columns", PList(<<>>))
      on_delete == Upper(GetOr(details, "on_delete", PText(<<"N", "O", " ", "A", "C", "T", "I", "O", "N">>)).v)
      on_update == Upper(GetOr(details, "on_update", PText(<<"N", "O", " ", "A", "C", "T", "I", "O", "N">>)).v)
  IN IF ref_table # <<>> /\ IsList(ref_cols_list) /\ Truthy(ref_cols_list)
       THEN <<<<"A", "L", "T", "E", "R", " ", "T", "A", "B", "L", "E", " ">> \o Quoted(pg_clean_identifier(table_isr.name))
              \o <<" ", "A", "D", "D", " ", "C", "O", "N", "S", "T", "R", "A", "I", "N", "T", " ">> \o Quoted(pg_clean_identifier(fk_name)) \o <<" ">>
              \o <<"F", "O", "R", "E", "I", "G", "N", " ", "K", "E", "Y", " ", "(">> \o Quoted(col_isr.name.v) \o <<")", " ", "R", "E", "F", "E", "R", "E", "N", "C", "E", "S", " ">>
              \o Quoted(ref_table) \o <<" ", "(">>
              \o JoinText([k \in 1..Len(ref_cols_list.v) |->
                             Quoted(pg_clean_identifier(ref_cols_list.v[k]))], <<",", " ">>)
              \o <<")">>
              \o (IF on_delete # <<>> /\ on_delete # <<"N", "O", " ", "A", "C", "T", "I", "O", "N">>
                    THEN <<" ", "O", "N", " ", "D", "E", "L", "E", "T", "E", " ">> \o on_delete ELSE <<>>)
              \o (IF on_update # <<>> /\ on_update # <<"N", "O", " ", "A", "C", "T", "I", "O", "N">>
                    THEN <<" ", "O", "N", " ", "U", "P", "D", "A", "T", "E", " ">> \o on_update ELSE <<>>)
              \o <<";">> >>
       ELSE <<>>

RECURSIVE ForeignKeys(_, _, _)
\* for constraint in col_isr.constraints (lines 151-170): constraint.type.upper()
\* is taken of every constraint
ForeignKeys(table_isr, col_isr, i) ==
  IF i > Len(col_isr.constraints) THEN Ok(<<>>)
  ELSE IF col_isr.constraints[i].type.t # "text"
    THEN Raise("AttributeError",
               <<PStr("object has no attribute 'upper'"), PStr(col_isr.constraints[i].type.t)>>)
  ELSE Try(ForeignKeys(table_isr, col_isr, i + 1), LAMBDA rest :
         Ok((IF TypeIs(col_isr.constraints[i], <<"F", "O", "R", "E", "I", "G", "N", "_", "K", "E", "Y">>)
               THEN ForeignKeyStatements(table_isr, col_isr, col_isr.constraints[i])
               ELSE <<>>) \o rest))


RECURSIVE ColumnPass(_, _, _)
\* for col_isr in table_isr.columns (lines 126-170).  acc holds
\* column_definitions, pk_cols_for_table_constraint and the statements added
\* to foreign_key_alter_statements and column_comments
ColumnPass(table_isr, j, acc) ==
  IF j > Len(table_isr.columns) THEN Ok(acc)
  ELSE LET col_isr == table_isr.columns[j]
           pg_type == IF Upper(col_isr.generic_type.v) = <<"E", "N", "U", "M", "_", "T", "Y", "P", "E">>
                        THEN Quoted(EnumTypeName(table_isr, col_isr))
                        ELSE _map_generic_type_to_postgresql(col_isr, <<>>)
           is_serial == Contains(Upper(pg_type), <<"S", "E", "R", "I", "A", "L">>)
       IN Try(_get_column_constraints_ddl(col_isr, PBool(is_serial)), LAMBDA constraints_str :
          Try(ForeignKeys(table_isr, col_isr, 1), LAMBDA fks :
            ColumnPass(table_isr, j + 1,
              [column_definitions |->
                 Append(acc.column_definitions,
                        <<" ", " ", " ", " ">> \o Quoted(pg_clean_identifier(col_isr.name)) \o <<" ">> \o pg_type
                        \o (IF constraints_str.v # <<>>
                              THEN <<" ">> \o constraints_str.v ELSE <<>>)),
               column_comments |->
                 IF Truthy(col_isr.comment)
                   THEN Append(acc.column_comments,
                          <<"C", "O", "M", "M", "E", "N", "T", " ", "O", "N", " ", "C", "O", "L", "U", "M", "N", " ">> \o Quoted(pg_clean_identifier(table_isr.name))
                          \o <<".">> \o Quoted(pg_clean_identifier(col_isr.name))
                          \o <<" ", "I", "S", " ", "'">> \o EscapeQuotes(col_isr.comment.v) \o <<"'", ";">>)
                   ELSE acc.column_comments,
               pk_cols_for_table_constraint |->
                 IF AnyConstraint(col_isr, <<"P", "R", "I", "M", "A", "R", "Y", "_", "K", "E", "Y">>) /\ ~is_serial
                   THEN Append(acc.pk_cols_for_table_constraint,
                               Quoted(pg_clean_identifier(col_isr.name)))
                   ELSE acc.pk_cols_for_table_constraint,
               foreign_key_alter_statements |-> acc.foreign_key_alter_statements \o fks])))

RECURSIVE TablePass(_, _, _)
\* Pass 2 (lines 119-187).  acc holds the statements added to
\* all_ddl_statements, foreign_key_alter_statements, table_comments and
\* column_comments
TablePass(tables, i, acc) ==
  IF i > Len(tables) THEN Ok(acc)
  ELSE LET table_isr == tables[i] IN
    Try(ColumnPass(table_isr, 1,
          [column_definitions |-> <<>>, pk_cols_for_table_constraint |-> <<>>,
           column_comments |-> acc.column_comments,
           foreign_key_alter_statements |-> acc.foreign_key_alter_statements]),
        LAMBDA cols :
          LET table_level_constraints_str ==
                IF cols.pk_cols_for_table_constraint # <<>>
                  THEN <<<<" ", " ", " ", " ", "P", "R", "I", "M", "A", "R", "Y", " ", "K", "E", "Y", " ", "(">>
                         \o JoinText(cols.pk_cols_for_table_constraint, <<",", " ">>) \o <<")">> >>
                  ELSE <<>>
              create_table_statement ==
                <<"C", "R", "E", "A", "T", "E", " ", "T", "A", "B", "L", "E", " ">> \o Quoted(pg_clean_identifier(table_isr.name)) \o <<" ", "(", "\n">>
                \o JoinText(cols.column_definitions \o table_level_constraints_str, <<",", "\n">>)
                \o <<"\n", ")", ";">>
          IN IF cols.column_definitions = <<>>
               THEN TablePass(tables, i + 1,
                      [acc EXCEPT !.column_comments = cols.column_comments,
                                  !.foreign_key_alter_statements = cols.foreign_key_alter_statements])
               ELSE TablePass(tables, i + 1,
                      [all_ddl_statements |->
                         acc.all_ddl_statements \o <<create_table_statement, <<>> >>,
                       table_comments |->
                         IF Truthy(table_isr.comment)
                           THEN Append(acc.table_comments,
                                  <<"C", "O", "M", "M", "E", "N", "T", " ", "O", "N", " ", "T", "A", "B", "L", "E", " ">> \o Quoted(pg_clean_identifier(table_isr.name))
                                  \o <<" ", "I", "S", " ", "'">> \o EscapeQuotes(table_isr.comment.v) \o <<"'", ";">>)
                           ELSE acc.table_comments,
                       column_comments |-> cols.column_comments,
                       foreign_key_alter_statements |-> cols.foreign_key_alter_statements]))

\* a titled block of statements followed by a blank line, nothing when there
\* are no statements (lines 113-116, 190-203)
Block(title, statements) ==
  IF statements = <<>> THEN <<>> ELSE <<title>> \o statements \o << <<>> >>

\* convert_isr_to_postgresql_ddl(schema_isr): the script as one text
convert_isr_to_postgresql_ddl(schema_isr) ==
  LET header ==
        (IF Truthy(schema_isr.schema_name)
           THEN <<<<"-", "-", " ", "S", "c", "h", "e", "m", "a", ":", " ">> \o schema_isr.schema_name.v>> ELSE <<>>)
        \o (IF Truthy(schema_isr.version)
              THEN <<<<"-", "-", " ", "V", "e", "r", "s", "i", "o", "n", ":", " ">> \o schema_isr.version.v>> ELSE <<>>)
        \o <<<<"-", "-", " ", "G", "e", "n", "e", "r", "a", "t", "e", "d", " ", "b", "y", " ", "S", "c", "h", "e", "m", "a", "G", "e", "n", "i", "u", "s", " ", "f", "o", "r", " ", "P", "o", "s", "t", "g", "r", "e", "S", "Q", "L">> \o <<"\n">> >>
  IN Try(EnumPass(schema_isr.tables, 1, 1, <<>>), LAMBDA enum_type_creations :
     Try(TablePass(schema_isr.tables, 1,
           [all_ddl_statements |-> <<>>, table_comments |-> <<>>,
            column_comments |-> <<>>, foreign_key_alter_statements |-> <<>>]),
         LAMBDA created :
           Ok(PText(JoinText(
             header
             \o Block(<<"-", "-", " ", "C", "u", "s", "t", "o", "m", " ", "E", "N", "U", "M", " ", "t", "y", "p", "e", "s">>,
                      sorted([k \in 1..Len(enum_type_creations) |-> enum_type_creations[k][2]]))
             \o created.all_ddl_statements
             \o Block(<<"-", "-", " ", "F", "o", "r", "e", "i", "g", "n", " ", "K", "e", "y", " ", "C", "o", "n", "s", "t", "r", "a", "i", "n", "t", "s", " ", "(", "a", "d", "d", "e", "d", " ", "v", "i", "a", " ", "A", "L", "T", "E", "R", " ", "T", "A", "B", "L", "E", ")">>,
                      created.foreign_key_alter_statements)
             \o Block(<<"-", "-", " ", "T", "a", "b", "l", "e", " ", "C", "o", "m", "m", "e", "n", "t", "s">>, created.table_comments)
             \o Block(<<"-", "-", " ", "C", "o", "l", "u", "m", "n", " ", "C", "o", "m", "m", "e", "n", "t", "s">>, created.column_comments),
             <<"\n">>)))))

\* The module as an interpreter loads it: lines 78, 110, 144 and 186 put a
\* quote of the enclosing kind inside an f-string replacement field, which
\* Python accepts from 3.12 on (nested_quotes) and rejects before it
postgresql_adapter(nested_quotes, result) ==
  IF nested_quotes THEN result
  ELSE Raise("SyntaxError", <<PStr("f-string: expecting '}'")>>)

-----------------------------------------------------------------------------
(* parsing_engine/__init__.py: ParsingEngine                               *)

S_json == <<"j", "s", "o", "n">>

\* generate_schema_from_input(self, input_data, input_type).  The signature
\* has no source_name parameter: a call site that passes that keyword gets
\* Python's TypeError before the body runs.  Only "json" is dispatched; the
\* try/except re-raises ValueError and lets every other exception through.
generate_schema_from_input(input_data, input_type, source_name) ==
  IF source_name # NoKw
    THEN Raise("TypeError", <<PStr("got an unexpected keyword argument 'source_name'")>>)
  ELSE IF Lower(input_type) = S_json
    THEN parse_json_input(input_data)
  ELSE Raise("NotImplementedError",
             <<PStr("Parser for input type"), PText(input_type), PStr("is not implemented.")>>)

\* A DDL text is a sequence of statements (records with a stmt field).
Ddl(statements) == [t |-> "ddl", statements |-> statements]

\* convert_isr_to_target_ddl(self, isr, target_db): the placeholder line,
\* whatever target_db is.
convert_isr_to_target_ddl(schema, target_db) ==
  Ok(Ddl(<<[stmt |-> "--", text |-> "Placeholder DDL", target_db |-> target_db,
            tables |-> Len(schema.tables), schema_name |-> schema.schema_name]>>))

-----------------------------------------------------------------------------
(* api/endpoints/generate.py                                               *)

HTTP_200_OK == 200

HTTP_400_BAD_REQUEST == 400

HTTP_500_INTERNAL_SERVER_ERROR == 500

HTTP_501_NOT_IMPLEMENTED == 501

Response(status, output_ddl, detail) ==
  [status |-> status, output_ddl |-> output_ddl, detail |-> detail]

\* the except clauses of generate_schema_endpoint, in order
HTTPException(exc) ==
  CASE exc.kind = "NotImplementedError" ->
         Response(HTTP_501_NOT_IMPLEMENTED, None, exc.msg)
    [] exc.kind = "ValueError" ->
         Response(HTTP_400_BAD_REQUEST, None, exc.msg)
    [] OTHER ->
         Response(HTTP_500_INTERNAL_SERVER_ERROR, None,
                  <<PStr("An unexpected error occurred during schema generation.")>>)

\* generate_schema_endpoint(request): step 1 always passes
\* source_name=request.source_name; step 2 converts when target_db is truthy.
generate_schema_endpoint(request) ==
  LET gen == generate_schema_from_input(request.input_data, request.input_type,
                                        request.source_name)
  IN IF gen.kind # "ok" THEN HTTPException(gen)
     ELSE IF Truthy(request.target_db)
       THEN LET conv == convert_isr_to_target_ddl(gen.value, request.target_db.v)
            IN IF conv.kind # "ok" THEN HTTPException(conv)
               ELSE Response(HTTP_200_OK, conv.value,
                             <<PStr("Schema DDL generated successfully.")>>)
       ELSE Response(HTTP_200_OK, None,
                     <<PStr("Input processed to Intermediate Schema Representation.")>>)

-----------------------------------------------------------------------------
(* The calls the engine and the endpoint are exercised with.               *)

S_sql == <<"s", "q", "l">>

S_csv == <<"c", "s", "v">>

S_python == <<"p", "y", "t", "h", "o", "n">>

S_sqlalchemy == <<"s", "q", "l", "a", "l", "c", "h", "e", "m", "y">>

S_mysql == <<"m", "y", "s", "q", "l">>

S_postgresql == <<"p", "o", "s", "t", "g", "r", "e", "s", "q", "l">>

S_postgres == <<"p", "o", "s", "t", "g", "r", "e", "s">>

S_xml == <<"x", "m", "l">>

S_textile == <<"t", "e", "x", "t", "i", "l", "e">>

S_db2 == <<"d", "b", "2">>

S_oracle == <<"o", "r", "a", "c", "l", "e">>

Min(a, b) == IF a < b THEN a ELSE b

\* s with any of its first MaxFlip letters in upper case, and s all upper case
CaseVariants(s) ==
  {[i \in 1..Len(s) |-> IF i \in U THEN UpperChar(s[i]) ELSE s[i]] :
     U \in SUBSET (1..Min(Len(s), MaxFlip))} \cup {Upper(s)}

\* the format names of request_models.py's examples, and the dialect names
RegisteredInputTypes == {S_json, S_sql, S_csv, S_python, S_sqlalchemy}

RegisteredTargets == {S_mysql, S_postgresql, S_postgres}

InputTypes ==
  UNION {CaseVariants(s) : s \in RegisteredInputTypes \cup {S_xml, S_textile}}
    \cup {<<>>}

Targets == UNION {CaseVariants(s) : s \in RegisteredTargets \cup {S_db2, S_oracle}}

\* a text that is no JSON (SQL, CSV, Python source, a broken document), the
\* documents of the scenarios, and documents json.loads accepts but the
\* parser does not
EngineTexts ==
  {JsonText(FALSE, None), JsonText(TRUE, DocScenario), JsonText(TRUE, DocUsers),
   JsonText(TRUE, PDict(Entry("tables", PList(<<>>)))),
   JsonText(TRUE, PDict(Entry("schema_name", PStr("NoTablesDB")))),
   JsonText(TRUE, PList(<<>>)), JsonText(TRUE, None)}

SourceNames == {NoKw, None, PStr("my_csv_table")}

Requests ==
  [input_data : EngineTexts, input_type : InputTypes,
   target_db : {None} \cup {PText(d) : d \in Targets},
   source_name : SourceNames \ {NoKw}]


-----------------------------------------------------------------------------
(* The token lists the SQL parser is run on: what sqlparse makes of CREATE *)
(* TABLE statements such as those of test_sql_parser.py.  A column         *)
(* definition is a name part, a type part and constraint phrases.          *)

Kw(value) == Tok("Token", "Keyword", value)

\* an Identifier group; the parser never reads the tokens inside it
Id(value) == Group("Identifier", value, <<>>, _clean_identifier(value), FALSE)

Ws == Tok("Token", "Whitespace", <<" ">>)

Comma == Tok("Token", "Punctuation", <<",">>)

LParen == Tok("Token", "Punctuation", <<"(">>)

RParen == Tok("Token", "Punctuation", <<")">>)

\* str() of a group: the texts of its tokens, concatenated
RECURSIVE Text(_)
Text(tokens) == IF tokens = <<>> THEN <<>> ELSE Head(tokens).value \o Text(Tail(tokens))

NameParts == {<<>>, <<Id(<<"i", "d">>)>>, <<Id(<<Backtick, "t", "i", "t", "l", "e", Backtick>>)>>}

TypeParts ==
  {<<>>,
   <<Tok("Token", "Name.Builtin", <<"I", "N", "T">>)>>,
   <<Id(<<"I", "N", "T">>)>>,
   <<Kw(<<"b", "i", "g", "i", "n", "t">>)>>,
   <<Group("Function", <<"V", "A", "R", "C", "H", "A", "R", "(", "1", "0", "0", ")">>, <<>>, <<"V", "A", "R", "C", "H", "A", "R">>, TRUE)>>,
   <<Id(<<"D", "E", "C", "I", "M", "A", "L">>), Group("Parenthesis", <<"(", "1", "0", ",", " ", "2", ")">>, <<>>, <<>>, FALSE)>>}

ConstraintPhrases ==
  {<<Kw(<<"N", "O", "T">>), Kw(<<"N", "U", "L", "L">>)>>,
   <<Kw(<<"N", "O", "T", " ", "N", "U", "L", "L">>)>>,
   <<Kw(<<"n", "u", "l", "l">>)>>,
   <<Kw(<<"P", "R", "I", "M", "A", "R", "Y">>), Kw(<<"K", "E", "Y">>)>>,
   <<Kw(<<"P", "R", "I", "M", "A", "R", "Y">>), Kw(<<"K", "E", "Y">>), Kw(<<"A", "U", "T", "O", "_", "I", "N", "C", "R", "E", "M", "E", "N", "T">>)>>,
   <<Kw(<<"U", "N", "I", "Q", "U", "E">>)>>,
   <<Kw(<<"A", "U", "T", "O", "I", "N", "C", "R", "E", "M", "E", "N", "T">>)>>,
   <<Kw(<<"D", "E", "F", "A", "U", "L", "T">>), Tok("Token", "Number.Integer", <<"0">>)>>,
   <<Kw(<<"D", "E", "F", "A", "U", "L", "T">>), Tok("Token", "Number.Integer", <<"-", "1", "2">>)>>,
   <<Kw(<<"D", "E", "F", "A", "U", "L", "T">>), Tok("Token", "Number.Float", <<"1", ".", "5">>)>>,
   <<Kw(<<"D", "E", "F", "A", "U", "L", "T">>), Tok("Token", "Number.Float", <<"1", "E", "5">>)>>,
   <<Kw(<<"D", "E", "F", "A", "U", "L", "T">>), Tok("Token", "String.Single", <<"'", "a", "c", "t", "i", "v", "e", "'">>)>>,
   <<Kw(<<"d", "e", "f", "a", "u", "l", "t">>), Kw(<<"t", "r", "u", "e">>)>>,
   <<Kw(<<"D", "E", "F", "A", "U", "L", "T">>), Kw(<<"C", "U", "R", "R", "E", "N", "T", "_", "T", "I", "M", "E", "S", "T", "A", "M", "P">>)>>,
   <<Kw(<<"D", "E", "F", "A", "U", "L", "T">>)>>,
   <<Tok("Token", "Comment", <<"-", "-", " ", "p", "k">>)>>}

MaxSqlPhrases == 1

RECURSIVE Flatten(_)
Flatten(seqs) == IF seqs = <<>> THEN <<>> ELSE Head(seqs) \o Flatten(Tail(seqs))

ConstraintParts ==
  {Flatten(s) : s \in SeqsUpTo(ConstraintPhrases, MaxSqlPhrases)}
    \cup {<<Kw(<<"N", "O", "T">>), Kw(<<"N", "U", "L", "L">>), Kw(<<"D", "E", "F", "A", "U", "L", "T">>),
            Tok("Token", "String.Single", <<"'", "a", "c", "t", "i", "v", "e", "'">>), Kw(<<"U", "N", "I", "Q", "U", "E">>)>>}

\* the tokens of one element of the parenthesis
SqlElements ==
  {n \o t \o c : n \in NameParts, t \in TypeParts, c \in ConstraintParts} \ {<<>>}

\* the elements the statements are built of
StatementElements ==
  {<<Id(<<"i", "d">>), Tok("Token", "Name.Builtin", <<"I", "N", "T">>), Kw(<<"P", "R", "I", "M", "A", "R", "Y">>), Kw(<<"K", "E", "Y">>)>>,
   <<Id(<<"i", "d">>), Id(<<"I", "N", "T">>), Kw(<<"P", "R", "I", "M", "A", "R", "Y">>), Kw(<<"K", "E", "Y">>)>>,
   <<Id(<<"n", "a", "m", "e">>), Group("Function", <<"V", "A", "R", "C", "H", "A", "R", "(", "1", "0", "0", ")">>, <<>>, <<"V", "A", "R", "C", "H", "A", "R">>, TRUE),
     Kw(<<"N", "O", "T", " ", "N", "U", "L", "L">>)>>,
   <<Id(<<"c", "o", "l", "1">>), Tok("Token", "Name.Builtin", <<"I", "N", "T">>)>>,
   <<Id(<<"c", "o", "l", "1">>)>>,
   <<Kw(<<"P", "R", "I", "M", "A", "R", "Y">>), Kw(<<"K", "E", "Y">>), Group("Parenthesis", <<"(", "i", "d", ")">>, <<>>, <<>>, FALSE)>>,
   <<Id(<<"n">>), Tok("Token", "Name.Builtin", <<"I", "N", "T">>), Kw(<<"D", "E", "F", "A", "U", "L", "T">>),
     Tok("Token", "Number.Float", <<"1", "E", "5">>)>>}

MaxSqlElements == 2

\* the Parenthesis group of a column list: ( e1 , e2 ... )
RECURSIVE CommaSeparated(_)
CommaSeparated(elements) ==
  IF elements = <<>> THEN <<>>
  ELSE IF Len(elements) = 1 THEN elements[1]
  ELSE elements[1] \o <<Comma, Ws>> \o CommaSeparated(Tail(elements))

ColumnList(elements) ==
  LET tokens == <<LParen>> \o CommaSeparated(elements) \o <<RParen>>
  IN Group("Parenthesis", Text(tokens), tokens, <<>>, FALSE)

ColumnLists ==
  {ColumnList(s) : s \in SeqsUpTo(StatementElements, MaxSqlElements)}

Create == Tok("Token", "Keyword.DDL", <<"C", "R", "E", "A", "T", "E">>)

\* CREATE [TEMPORARY] TABLE [IF NOT EXISTS] users ( ... )
CreateTableStatements ==
  {<<Create, Ws>> \o pre \o <<Kw(<<"T", "A", "B", "L", "E">>), Ws>> \o ine
     \o <<Id(<<"u", "s", "e", "r", "s">>), Ws, cl, Tok("Token", "Punctuation", <<";">>)>> :
     pre \in {<<>>, <<Kw(<<"T", "E", "M", "P", "O", "R", "A", "R", "Y">>), Ws>>},
     ine \in {<<>>, <<Kw(<<"I", "F", " ", "N", "O", "T", " ", "E", "X", "I", "S", "T", "S">>), Ws>>},
     cl \in ColumnLists}

\* statements without a column list: the truncated statement of
\* test_incomplete_ddl_statement, a table name grouped with its column list
\* into a Function, a statement without a name, other statements
OtherStatements ==
  {<<Create, Ws, Kw(<<"T", "A", "B", "L", "E">>), Ws, Id(<<"i", "n", "c", "o", "m", "p", "l", "e", "t", "e", "_", "t", "a", "b", "l", "e">>), Ws, LParen,
     Id(<<"c", "o", "l", "1">>), Ws, Tok("Token", "Name.Builtin", <<"I", "N", "T">>)>>,
   <<Create, Ws, Kw(<<"T", "A", "B", "L", "E">>), Ws,
     Group("Function", <<"u", "s", "e", "r", "s", " ", "(", "i", "d", " ", "I", "N", "T", ")">>, <<>>, <<"u", "s", "e", "r", "s">>, TRUE)>>,
   <<Create, Ws, Kw(<<"T", "A", "B", "L", "E">>)>>,
   <<Create, Ws, Kw(<<"T", "A", "B", "L", "E">>), Ws, LParen, RParen>>,
   <<Create, Ws, Kw(<<"I", "N", "D", "E", "X">>), Ws, Id(<<"i", "d", "x">>)>>,
   <<Create>>,
   <<Tok("Token", "Keyword.DML", <<"S", "E", "L", "E", "C", "T">>), Ws, Tok("Token", "Number.Integer", <<"1">>)>>,
   <<Tok("Token", "Comment", <<"-", "-", " ", "n", "o", "t", "h", "i", "n", "g">>), Ws>>}

\* what sqlparse.parse returns: no statement, one statement, or a statement
\* without column list followed by a CREATE TABLE
SqlInputs ==
  {<<>>} \cup {<<s>> : s \in CreateTableStatements \cup OtherStatements}
    \cup {<<o, s>> : o \in OtherStatements,
                     s \in {c \in CreateTableStatements : Len(c) = 8}}


-----------------------------------------------------------------------------
(* The trees the Python-ORM parser is run on: model classes in the style   *)
(* of test_python_orm_parser.py.                                           *)

Str(s) == Constant(PText(s))

Mapped(type) == Subscript(Name(<<"M", "a", "p", "p", "e", "d">>), Name(type))

\* the statements of a class body
BodyItems ==
  {Expr(Str(<<"B", "l", "o", "g", " ", "p", "o", "s", "t", "s">>)),
   Assign(<<Name(<<"_", "_", "t", "a", "b", "l", "e", "n", "a", "m", "e", "_", "_">>)>>, Str(<<"p", "o", "s", "t", "s">>)),
   Assign(<<Name(<<"c", "o", "n", "t", "e", "n", "t">>)>>, Call(Name(<<"C", "o", "l", "u", "m", "n">>), <<Name(<<"T", "e", "x", "t">>)>>, <<>>)),
   Assign(<<Name(<<"i", "d">>)>>,
          Call(Name(<<"C", "o", "l", "u", "m", "n">>), <<Name(<<"I", "n", "t", "e", "g", "e", "r">>)>>,
               <<keyword(<<"p", "r", "i", "m", "a", "r", "y", "_", "k", "e", "y">>, Constant(PBool(TRUE)))>>)),
   Assign(<<Name(<<"t", "i", "t", "l", "e">>)>>,
          Call(Attribute(Name(<<"s", "a">>), <<"C", "o", "l", "u", "m", "n">>),
               <<Call(Attribute(Name(<<"s", "a">>), <<"S", "t", "r", "i", "n", "g">>), <<Constant(PNum(50))>>, <<>>)>>,
               <<keyword(<<"n", "u", "l", "l", "a", "b", "l", "e">>, Constant(PBool(FALSE))),
                 keyword(<<"d", "e", "f", "a", "u", "l", "t">>, Str(<<"u", "n", "t", "i", "t", "l", "e", "d">>))>>)),
   Assign(<<Name(<<"u", "s", "e", "r", "_", "i", "d">>)>>,
          Call(Name(<<"C", "o", "l", "u", "m", "n">>),
               <<Call(Name(<<"F", "o", "r", "e", "i", "g", "n", "K", "e", "y">>), <<Str(<<"u", "s", "e", "r", "s", ".", "i", "d">>)>>, <<>>)>>, <<>>)),
   Assign(<<Name(<<"c", "o", "u", "n", "t">>)>>, Constant(PNum(0))),
   Assign(<<Attribute(Name(<<"c", "l", "s">>), <<"x">>)>>, Call(Name(<<"C", "o", "l", "u", "m", "n">>), <<>>, <<>>)),
   AnnAssign(Name(<<"i", "d">>), Mapped(<<"i", "n", "t">>),
             Call(Name(<<"m", "a", "p", "p", "e", "d", "_", "c", "o", "l", "u", "m", "n">>), <<>>,
                  <<keyword(<<"p", "r", "i", "m", "a", "r", "y", "_", "k", "e", "y">>, Constant(PBool(TRUE))),
                    keyword(<<"a", "u", "t", "o", "i", "n", "c", "r", "e", "m", "e", "n", "t">>, Constant(PBool(TRUE)))>>)),
   AnnAssign(Name(<<"n", "a", "m", "e">>), Mapped(<<"s", "t", "r">>),
             Call(Name(<<"m", "a", "p", "p", "e", "d", "_", "c", "o", "l", "u", "m", "n">>),
                  <<Call(Name(<<"S", "t", "r", "i", "n", "g">>), <<Constant(PNum(50))>>, <<>>)>>,
                  <<keyword(<<"d", "e", "f", "a", "u", "l", "t">>, Str(<<"x">>)),
                    keyword(<<"u", "n", "i", "q", "u", "e">>, Constant(PBool(TRUE))),
                    keyword(<<"c", "o", "m", "m", "e", "n", "t">>, Str(<<"d", "i", "s", "p", "l", "a", "y", " ", "n", "a", "m", "e">>))>>)),
   AnnAssign(Name(<<"u", "s", "e", "r", "_", "i", "d">>), Mapped(<<"i", "n", "t">>),
             Call(Attribute(Name(<<"s", "o">>), <<"m", "a", "p", "p", "e", "d", "_", "c", "o", "l", "u", "m", "n">>),
                  <<Call(Name(<<"F", "o", "r", "e", "i", "g", "n", "K", "e", "y">>), <<Str(<<"u", "s", "e", "r", "s", ".", "i", "d">>)>>, <<>>)>>, <<>>)),
   AnnAssign(Name(<<"o", "w", "n", "e", "r">>), Mapped(<<"s", "t", "r">>),
             Call(Name(<<"m", "a", "p", "p", "e", "d", "_", "c", "o", "l", "u", "m", "n">>), <<>>,
                  <<keyword(<<"f", "o", "r", "e", "i", "g", "n", "_", "k", "e", "y">>, Str(<<"u", "s", "e", "r", "s", ".", "n", "a", "m", "e">>))>>)),
   AnnAssign(Name(<<"s", "t", "a", "t", "u", "s">>), Mapped(<<"s", "t", "r">>),
             Call(Name(<<"m", "a", "p", "p", "e", "d", "_", "c", "o", "l", "u", "m", "n">>),
                  <<Call(Name(<<"E", "n", "u", "m">>), <<Str(<<"a", "c", "t", "i", "v", "e">>), Str(<<"i", "n", "a", "c", "t", "i", "v", "e">>)>>, <<>>)>>,
                  <<>>)),
   AnnAssign(Name(<<"b", "o", "d", "y">>),
             Subscript(Name(<<"M", "a", "p", "p", "e", "d">>), Subscript(Name(<<"O", "p", "t", "i", "o", "n", "a", "l">>), Name(<<"s", "t", "r">>))),
             Call(Name(<<"m", "a", "p", "p", "e", "d", "_", "c", "o", "l", "u", "m", "n">>), <<Attribute(Name(<<"s", "a">>), <<"T", "e", "x", "t">>)>>, <<>>)),
   AnnAssign(Name(<<"c", "r", "e", "a", "t", "e", "d">>), Mapped(<<"d", "a", "t", "e", "t", "i", "m", "e">>),
             Call(Name(<<"m", "a", "p", "p", "e", "d", "_", "c", "o", "l", "u", "m", "n">>), <<>>,
                  <<keyword(<<"d", "e", "f", "a", "u", "l", "t">>,
                            Call(Attribute(Name(<<"f", "u", "n", "c">>), <<"n", "o", "w">>), <<>>, <<>>)),
                    keyword(<<"d", "e", "f", "a", "u", "l", "t">>, Constant(None))>>)),
   AnnAssign(Name(<<"a", "u", "t", "h", "o", "r">>), Mapped(<<"U", "s", "e", "r">>),
             Call(Name(<<"r", "e", "l", "a", "t", "i", "o", "n", "s", "h", "i", "p">>), <<Str(<<"U", "s", "e", "r">>)>>, <<>>)),
   AnnAssign(Name(<<"r", "a", "n", "k">>), Name(<<"i", "n", "t">>), Constant(PNum(5))),
   AnnAssign(Name(<<"n", "o", "t", "e">>), Name(<<"s", "t", "r">>), NoNode),
   AnnAssign(Attribute(Name(<<"c", "l", "s">>), <<"x">>), Name(<<"i", "n", "t">>),
             Call(Name(<<"m", "a", "p", "p", "e", "d", "_", "c", "o", "l", "u", "m", "n">>), <<>>, <<>>))}

MaxOrmBody == 2

ClassBodies == SeqsUpTo(BodyItems, MaxOrmBody)

BaseLists ==
  {<<>>, <<Name(<<"B", "a", "s", "e">>)>>, <<Name(<<"o", "b", "j", "e", "c", "t">>)>>,
   <<Attribute(Name(<<"d", "b">>), <<"M", "o", "d", "e", "l">>)>>,
   <<Name(<<"M", "i", "x", "i", "n">>), Name(<<"D", "e", "c", "l", "a", "r", "a", "t", "i", "v", "e", "B", "a", "s", "e">>)>>,
   <<Attribute(Name(<<"d", "b">>), <<"B", "a", "s", "e">>)>>}

\* a module with one class; with a model class nested in a class or in a
\* function; with two model classes
OrmModules ==
  {<<ClassDef(<<"P", "o", "s", "t">>, bases, body)>> : bases \in BaseLists, body \in ClassBodies}
    \cup {<<ClassDef(<<"O", "u", "t", "e", "r">>, bases,
                      <<ClassDef(<<"P", "o", "s", "t">>, <<Name(<<"B", "a", "s", "e">>)>>,
                                 <<item>>)>>)>> :
            item \in BodyItems, bases \in {<<>>, <<Name(<<"B", "a", "s", "e">>)>>}}
    \cup {<<FunctionDef(<<"m", "a", "k", "e">>,
                         <<ClassDef(<<"P", "o", "s", "t">>, <<Name(<<"B", "a", "s", "e">>)>>,
                                    <<item>>)>>)>> :
            item \in BodyItems}
    \cup {<<ClassDef(<<"U", "s", "e", "r">>, <<Name(<<"B", "a", "s", "e">>)>>, <<a>>),
            ClassDef(<<"P", "o", "s", "t">>, <<Name(<<"B", "a", "s", "e">>)>>, <<b>>)>> :
            a \in BodyItems, b \in BodyItems}

OrmTexts == {PyText(FALSE, <<>>), PyText(TRUE, <<>>)} \cup {PyText(TRUE, b) : b \in OrmModules}

OrmTypes == {<<"s", "q", "l", "a", "l", "c", "h", "e", "m", "y">>, <<"S", "Q", "L", "A", "l", "c", "h", "e", "m", "y">>, <<"d", "j", "a", "n", "g", "o">>}

-----------------------------------------------------------------------------
(* Specifications.  Every operation is called from the idle state with     *)
(* inputs drawn from the bounded sets above; Return brings the caller back.*)

Init == pc = "idle" /\ args = None /\ ret = None

Return == pc # "idle" /\ pc' = "idle" /\ args' = None /\ ret' = None

\* a caller of the engine (test_parsing_engine.py): generate, then convert
\* the SchemaISR it got
Generate ==
  /\ pc = "idle"
  /\ \E input_data \in EngineTexts, input_type \in InputTypes,
        source_name \in SourceNames :
       /\ pc' = "generate"
       /\ args' = [input_data |-> input_data, input_type |-> input_type,
                   source_name |-> source_name]
       /\ ret' = generate_schema_from_input(input_data, input_type, source_name)

Convert ==
  /\ pc = "generate"
  /\ ret.kind = "ok"
  /\ \E target_db \in Targets :
       /\ pc' = "convert"
       /\ args' = [isr |-> ret.value, target_db |-> target_db]
       /\ ret' = convert_isr_to_target_ddl(ret.value, target_db)

Endpoint ==
  /\ pc = "idle"
  /\ \E request \in Requests :
       /\ pc' = "endpoint"
       /\ args' = request
       /\ ret' = generate_schema_endpoint(request)

Next == Generate \/ Convert \/ Endpoint \/ Return

Spec == Init /\ [][Next]_vars

ParseJson ==
  /\ pc = "idle"
  /\ \E text \in JsonTexts :
       /\ pc' = "parse_json_input"
       /\ args' = text
       /\ ret' = parse_json_input(text)

NextJson == ParseJson \/ Return

SpecJson == Init /\ [][NextJson]_vars

-----------------------------------------------------------------------------
(* Properties of the engine and the endpoint (specification Spec).         *)

HasCreateTable(ddl, table_name) ==
  \E i \in 1..Len(ddl.statements) :
    /\ ddl.statements[i].stmt = "CREATE TABLE"
    /\ ddl.statements[i].table = table_name

NamesKey(msg, key) ==
  \E i \in 1..Len(msg) : msg[i].t = "text" /\ msg[i].v = key

\* C1: generate dispatches case-insensitively on input_type: for json, sql,
\* csv, python and sqlalchemy in any letter case, with or without a
\* source_name argument, the call reaches the parser (for json: returns what
\* parse_json_input returns) and never raises UnsupportedFormat.
C1_RegisteredTypeReachesParser ==
  (pc = "generate" /\ Lower(args.input_type) \in RegisteredInputTypes)
    => /\ ret.kind \notin {"NotImplementedError", "TypeError"}
       /\ (Lower(args.input_type) = S_json
             => ret = parse_json_input(args.input_data))

\* C2: a lookup failure raises UnsupportedFormat naming the key, for either
\* key: generate (called without source_name) on an unregistered input_type,
\* and convert on an unregistered target_db; nothing is returned.
C2_LookupFailureRaisesUnsupported ==
  /\ (pc = "generate" /\ args.source_name = NoKw
        /\ Lower(args.input_type) \notin RegisteredInputTypes)
       => (ret.kind = "NotImplementedError" /\ NamesKey(ret.msg, args.input_type))
  /\ (pc = "convert" /\ Lower(args.target_db) \notin RegisteredTargets)
       => (ret.kind = "NotImplementedError" /\ NamesKey(ret.msg, args.target_db))

\* C3: convert for a registered dialect (mysql, postgresql, postgres, any
\* letter case) returns DDL with a CREATE TABLE statement for every table of
\* the ISR that has columns.
C3_RegisteredTargetGetsCreateTables ==
  (pc = "convert" /\ Lower(args.target_db) \in RegisteredTargets)
    => /\ ret.kind = "ok"
       /\ \A i \in 1..Len(args.isr.tables) :
            args.isr.tables[i].columns # <<>>
              => HasCreateTable(ret.value, args.isr.tables[i].name)

\* C4: a caller of generate sees no raw internal exception: a ValueError of
\* the parser propagates unchanged, any other exception raised inside the
\* parser arrives as a ValueError carrying the original message.
C4_ParserErrorsArriveAsValueError ==
  (pc = "generate" /\ args.source_name = NoKw /\ Lower(args.input_type) = S_json)
    => LET p == parse_json_input(args.input_data)
       IN /\ (p.kind = "ValueError" => ret = p)
          /\ (p.kind \notin {"ok", "ValueError"}
                => (ret.kind = "ValueError" /\ ret.msg = p.msg))

\* C6: the endpoint's status mapping: valid JSON input and a supported target
\* give 200 with output_ddl set; an unsupported input_type or target_db gives
\* 501 with the UnsupportedFormat message; malformed input gives 400; only
\* other failures give 500.
C6_EndpointStatusMapping ==
  pc = "endpoint"
    => LET p == parse_json_input(args.input_data)
           isJson == Lower(args.input_type) = S_json
           inOk == Lower(args.input_type) \in RegisteredInputTypes
           outOk == Truthy(args.target_db)
                      /\ Lower(args.target_db.v) \in RegisteredTargets
           outBad == Truthy(args.target_db)
                       /\ Lower(args.target_db.v) \notin RegisteredTargets
       IN /\ (isJson /\ p.kind = "ok" /\ outOk)
               => (ret.status = HTTP_200_OK /\ ret.output_ddl # None)
          /\ (~inOk => (ret.status = HTTP_501_NOT_IMPLEMENTED
                          /\ NamesKey(ret.detail, args.input_type)))
          /\ (isJson /\ p.kind = "ok" /\ outBad)
               => ret.status = HTTP_501_NOT_IMPLEMENTED
          /\ (isJson /\ p.kind = "ValueError")
               => (ret.status = HTTP_400_BAD_REQUEST /\ ret.detail = p.msg)
          /\ (ret.status = HTTP_500_INTERNAL_SERVER_ERROR
                => (~(isJson /\ p.kind \in {"ok", "ValueError"}) /\ inOk))

-----------------------------------------------------------------------------
(* Properties of the JSON parser (specification SpecJson).                 *)

\* some element of a `constraints` array is not an object with a `type`
ConstraintDefect(c) == ~IsDict(c) \/ ~Truthy(Get(c.v, "type"))

\* the column lacks `name` or `generic_type`, or has a defective constraint
ColumnDefect(c) ==
  \/ ~IsDict(c)
  \/ ~Truthy(Get(c.v, "name"))
  \/ ~Truthy(Get(c.v, "generic_type"))
  \/ /\ IsList(Get(c.v, "constraints"))
     /\ \E k \in 1..Len(Get(c.v, "constraints").v) :
          ConstraintDefect(Get(c.v, "constraints").v[k])

\* the table lacks `name`, has a missing / non-array `columns`, or has a
\* defective column
TableDefect(t) ==
  \/ ~IsDict(t)
  \/ ~Truthy(Get(t.v, "name"))
  \/ ~IsList(Get(t.v, "columns"))
  \/ \E j \in 1..Len(Get(t.v, "columns").v) : ColumnDefect(Get(t.v, "columns").v[j])

\* the defects of a document; a document whose top level is no object has
\* no `tables`
Defective(text) ==
  \/ ~text.valid
  \/ ~IsDict(text.value)
  \/ ~IsList(Get(text.value.v, "tables"))
  \/ \E i \in 1..Len(Get(text.value.v, "tables").v) :
       TableDefect(Get(text.value.v, "tables").v[i])

\* the constraints of a document column (none when `constraints` is no array)
DocConstraints(c) ==
  IF IsList(Get(c.v, "constraints")) THEN Get(c.v, "constraints").v ELSE <<>>

MirrorsColumn(col, c) ==
  /\ col.name = Get(c.v, "name")
  /\ col.generic_type = Get(c.v, "generic_type")
  /\ Len(col.constraints) = Len(DocConstraints(c))
  /\ \A k \in 1..Len(col.constraints) :
       /\ col.constraints[k].type = Get(DocConstraints(c)[k].v, "type")
       /\ col.constraints[k].details = DocConstraints(c)[k].v

MirrorsTable(tab, t) ==
  /\ tab.name = Get(t.v, "name")
  /\ Len(tab.columns) = Len(Get(t.v, "columns").v)
  /\ \A j \in 1..Len(tab.columns) :
       MirrorsColumn(tab.columns[j], Get(t.v, "columns").v[j])

\* the tables, columns and constraints of isr are those of data, in order
Mirrors(isr, data) ==
  /\ Len(isr.tables) = Len(Get(data.v, "tables").v)
  /\ \A i \in 1..Len(isr.tables) :
       MirrorsTable(isr.tables[i], Get(data.v, "tables").v[i])

\* C5: parse_json_input raises ValueError and returns nothing for every
\* document with a defect (not valid JSON; `tables` missing or no array; a
\* table without `name` or with missing / non-array `columns`; a column
\* without `name` or `generic_type`; a constraint that is no object with a
\* `type`); for every other document it returns a SchemaISR whose tables,
\* columns and constraints are the document's, in document order.
C5_JsonDefectsRaiseValueError ==
  pc = "parse_json_input"
    => IF Defective(args)
         THEN ret.kind = "ValueError" /\ ret.value = None
         ELSE ret.kind = "ok" /\ Mirrors(ret.value, args.value)

\* the same statement for the documents whose top level is an object
C5_ObjectDocuments ==
  (pc = "parse_json_input" /\ (args.valid => IsDict(args.value)))
    => IF Defective(args)
         THEN ret.kind = "ValueError" /\ ret.value = None
         ELSE ret.kind = "ok" /\ Mirrors(ret.value, args.value)


\* SQL type names: those of test_map_sql_type_to_generic_basic, names that
\* several rules match, names of no rule
SqlTypeNames ==
  {<<"B", "I", "G", "I", "N", "T">>, <<"I", "N", "T">>, <<"I", "N", "T", "E", "G", "E", "R">>,
   <<"S", "M", "A", "L", "L", "I", "N", "T">>, <<"T", "E", "X", "T">>, <<"L", "O", "N", "G", "T", "E", "X", "T">>,
   <<"C", "L", "O", "B">>, <<"V", "A", "R", "C", "H", "A", "R">>, <<"C", "H", "A", "R">>,
   <<"S", "T", "R", "I", "N", "G">>, <<"N", "V", "A", "R", "C", "H", "A", "R">>, <<"N", "C", "H", "A", "R">>,
   <<"D", "E", "C", "I", "M", "A", "L">>, <<"N", "U", "M", "E", "R", "I", "C">>, <<"F", "L", "O", "A", "T">>,
   <<"R", "E", "A", "L">>, <<"D", "O", "U", "B", "L", "E">>, <<"D", "O", "U", "B", "L", "E", " ", "P", "R", "E", "C", "I", "S", "I", "O", "N">>,
   <<"D", "A", "T", "E", "T", "I", "M", "E">>, <<"D", "A", "T", "E", "T", "I", "M", "E", "2">>, <<"T", "I", "M", "E", "S", "T", "A", "M", "P">>,
   <<"T", "I", "M", "E", "S", "T", "A", "M", "P", "T", "Z">>, <<"D", "A", "T", "E">>, <<"D", "A", "T", "E", "R", "A", "N", "G", "E">>,
   <<"T", "I", "M", "E">>, <<"T", "I", "M", "E", "T", "Z">>, <<"B", "O", "O", "L", "E", "A", "N">>,
   <<"B", "O", "O", "L">>, <<"B", "L", "O", "B">>, <<"B", "I", "N", "A", "R", "Y">>,
   <<"V", "A", "R", "B", "I", "N", "A", "R", "Y">>, <<"B", "Y", "T", "E", "A">>, <<"J", "S", "O", "N">>,
   <<"J", "S", "O", "N", "B">>, <<"U", "U", "I", "D">>, <<"I", "N", "T", "E", "R", "V", "A", "L">>,
   <<"P", "O", "I", "N", "T">>, <<"T", "I", "N", "Y", "T", "E", "X", "T">>, <<"T", "E", "X", "T", "I", "N", "T">>,
   <<"V", "A", "R", "C", "H", "A", "R", "(", "1", "0", "0", ")">>, <<"U", "N", "S", "U", "P", "P", "O", "R", "T", "E", "D", "_", "T", "Y", "P", "E">>, <<"G", "E", "O", "M", "E", "T", "R", "Y">>,
   <<"B", "i", "g", "I", "n", "t">>, <<"D", "a", "t", "e">>, <<"b", "o", "o", "l">>,
   <<>>}

\* a type name as written in a statement: in either case, bare or between
\* quotes
QuotedForms(sql_type) ==
  UNION {{name, <<"\"">> \o name \o <<"\"">>, <<Backtick>> \o name \o <<Backtick>>,
          <<"'">> \o name \o <<"'">>} : name \in {sql_type, Lower(sql_type)}}

\* the type_params of the callers: None by default, the parameters of
\* VARCHAR(255), DECIMAL(10, 2)
TypeParams == {None, PList(<<PText(<<"2", "5", "5">>)>>), PList(<<PText(<<"1", "0">>), PText(<<"2">>)>>)}

-----------------------------------------------------------------------------
(* Specification of the SQL parser.                                        *)

ExtractColumnDetails ==
  /\ pc = "idle"
  /\ \E tokens \in SqlElements :
       /\ pc' = "_extract_column_details"
       /\ args' = tokens
       /\ ret' = _extract_column_details(tokens)


MapSqlType ==
  /\ pc = "idle"
  /\ \E name \in SqlTypeNames, type_params \in TypeParams :
       \E sql_type \in QuotedForms(name) :
         /\ pc' = "_map_sql_type_to_generic"
         /\ args' = [sql_type |-> sql_type, type_params |-> type_params]
         /\ ret' = Ok(PStr(_map_sql_type_to_generic(sql_type, type_params)))


\* _extract_column_details run one loop iteration at a time: the name and
\* the type are read, then the constraint loop is entered
EnterLoop ==
  /\ pc = "idle"
  /\ \E tokens \in SqlElements :
       /\ pc' = "while"
       /\ args' = [tokens |-> tokens, idx |-> AfterType(tokens), branch |-> "none",
                   was |-> AfterType(tokens), read |-> AfterType(tokens) - 1]
       /\ ret' = Ok(<<>>)

\* one iteration of the loop; the exception of int() leaves the function
Iterate ==
  /\ pc = "while"
  /\ args.idx <= Len(args.tokens)
  /\ LET step == ScanStep(args.tokens, args.idx)
     IN /\ args' = [args EXCEPT !.idx = step.idx, !.branch = step.branch,
                                !.was = args.idx, !.read = step.read]
        /\ IF step.added.kind = "ok"
             THEN pc' = "while" /\ ret' = Ok(ret.value \o step.added.value)
             ELSE pc' = "left" /\ ret' = step.added

\* `while idx < len(tokens)` is false: return (line 123)
LeaveLoop ==
  /\ pc = "while"
  /\ args.idx > Len(args.tokens)
  /\ pc' = "left"
  /\ UNCHANGED <<args, ret>>

Left == pc = "left" /\ pc' = "idle" /\ args' = None /\ ret' = None

NextScan == EnterLoop \/ Iterate \/ LeaveLoop \/ Left

SpecScan == Init /\ [][NextScan]_vars

\* the loop is not suspended forever
SpecScanFair == SpecScan /\ WF_vars(Iterate \/ LeaveLoop)

ParseSql ==
  /\ pc = "idle"
  /\ \E parsed_statements \in SqlInputs :
       /\ pc' = "parse_sql_ddl_input"
       /\ args' = parsed_statements
       /\ ret' = parse_sql_ddl_input(parsed_statements)

NextSql == ExtractColumnDetails \/ MapSqlType \/ ParseSql \/ Return

SpecSql == Init /\ [][NextSql]_vars

\* C7: parse_sql_ddl_input never raises: for every input, a well-formed
\* CREATE TABLE and a truncated statement included, it returns a SchemaISR.
C7_SqlParserNeverRaises ==
  pc = "parse_sql_ddl_input" => ret.kind = "ok"


IsDigits(s) == s # <<>> /\ \A i \in 1..Len(s) : s[i] \in Digits

\* the value of a literal by its lexical form: an integer, a float (a
\* fraction or an exponent), TRUE / FALSE, else the text without its quotes
LiteralValue(text) ==
  LET s == _clean_identifier(text) IN
  IF text # s THEN PText(s)
  ELSE IF IsDigits(Unsigned(s))
    THEN PNum(IF Head(s) = "-" THEN 0 - IntValue(Unsigned(s)) ELSE IntValue(Unsigned(s)))
  ELSE IF /\ Unsigned(s) # <<>> /\ Head(Unsigned(s)) \in Digits
          /\ \A i \in 1..Len(Unsigned(s)) : Unsigned(s)[i] \in Digits \cup {".", "E", "e", "-", "+"}
    THEN [t |-> "float", v |-> s]
  ELSE IF Upper(s) = <<"T", "R", "U", "E">> THEN PBool(TRUE)
  ELSE IF Upper(s) = <<"F", "A", "L", "S", "E">> THEN PBool(FALSE)
  ELSE PText(s)

\* the words of the tokens, a keyword of two words that the tokenizer hands
\* over as one token ("NOT NULL") counting as its two words; each word keeps
\* the text of its token
RECURSIVE Words(_)
Words(tokens) ==
  IF tokens = <<>> THEN <<>>
  ELSE LET parts == SelectSeq(Split(Upper(Head(tokens).value), " "), LAMBDA w : w # <<>>)
       IN (IF InKeyword(Head(tokens).ttype) /\ Len(parts) > 1
             THEN [k \in 1..Len(parts) |-> [word |-> parts[k], text |-> parts[k]]]
             ELSE <<[word |-> Upper(Head(tokens).value), text |-> Head(tokens).value]>>)
          \o Words(Tail(tokens))

\* the constraints the phrases of the words stand for, in source order, as
\* <<type, value>>
RECURSIVE PhraseConstraints(_)
PhraseConstraints(words) ==
  LET Is(k, w) == Len(words) >= k /\ words[k].word = w
      Rest(k) == PhraseConstraints(SubSeq(words, k + 1, Len(words)))
  IN IF words = <<>> THEN <<>>
     ELSE IF Is(1, <<"N", "O", "T">>) /\ Is(2, <<"N", "U", "L", "L">>) THEN <<<<"NOT_NULL", None>>>> \o Rest(2)
     ELSE IF Is(1, <<"P", "R", "I", "M", "A", "R", "Y">>) /\ Is(2, <<"K", "E", "Y">>) /\ Is(3, <<"A", "U", "T", "O", "_", "I", "N", "C", "R", "E", "M", "E", "N", "T">>)
       THEN <<<<"PRIMARY_KEY", None>>, <<"AUTO_INCREMENT", None>>>> \o Rest(3)
     ELSE IF Is(1, <<"P", "R", "I", "M", "A", "R", "Y">>) /\ Is(2, <<"K", "E", "Y">>) THEN <<<<"PRIMARY_KEY", None>>>> \o Rest(2)
     ELSE IF Is(1, <<"U", "N", "I", "Q", "U", "E">>) THEN <<<<"UNIQUE", None>>>> \o Rest(1)
     ELSE IF Is(1, <<"A", "U", "T", "O", "_", "I", "N", "C", "R", "E", "M", "E", "N", "T">>) \/ Is(1, <<"A", "U", "T", "O", "I", "N", "C", "R", "E", "M", "E", "N", "T">>)
       THEN <<<<"AUTO_INCREMENT", None>>>> \o Rest(1)
     ELSE IF Is(1, <<"D", "E", "F", "A", "U", "L", "T">>) /\ Len(words) >= 2
       THEN <<<<"DEFAULT", LiteralValue(words[2].text)>>>> \o Rest(2)
     ELSE Rest(1)

\* a parsed constraint as <<type, value>>, the value of a DEFAULT read where
\* the parser stores it (line 113)
TypeAndValue(c) ==
  LET payload == Get(c.details, "details")
  IN <<c.type.v, IF payload.t = "object" THEN Get(payload.v, "value") ELSE None>>

\* C25: the scan of a column definition returns, for the tokens after the
\* column type, the constraints of their phrases in source order: NOT NULL,
\* PRIMARY KEY (with one AUTO_INCREMENT when it follows immediately), UNIQUE,
\* AUTO_INCREMENT / AUTOINCREMENT, and DEFAULT with the following token as its
\* value, typed by the token's lexical form and not read again; no other
\* token gives a constraint.
C25_ConstraintScan ==
  pc = "_extract_column_details" =>
    /\ ret.kind = "ok"
    /\ [k \in 1..Len(ret.value.constraints) |-> TypeAndValue(ret.value.constraints[k])]
         = PhraseConstraints(Words(SubSeq(args, AfterType(args), Len(args))))



\* the reference precedence list of the SQL type mapping: how a rule
\* matches, its words, its generic type
TypeRules ==
  <<[how |-> "contains", words |-> {<<"B", "I", "G", "I", "N", "T">>}, type |-> "BIG_INTEGER"],
    [how |-> "contains", words |-> {<<"I", "N", "T">>}, type |-> "INTEGER"],
    [how |-> "contains", words |-> {<<"T", "E", "X", "T">>, <<"C", "L", "O", "B">>}, type |-> "TEXT"],
    [how |-> "starts", words |-> {<<"V", "A", "R", "C", "H", "A", "R">>, <<"C", "H", "A", "R">>, <<"S", "T", "R", "I", "N", "G">>, <<"N", "V", "A", "R", "C", "H", "A", "R">>}, type |-> "STRING"],
    [how |-> "contains", words |-> {<<"D", "E", "C", "I", "M", "A", "L">>, <<"N", "U", "M", "E", "R", "I", "C">>}, type |-> "DECIMAL"],
    [how |-> "contains", words |-> {<<"F", "L", "O", "A", "T">>, <<"R", "E", "A", "L">>, <<"D", "O", "U", "B", "L", "E">>}, type |-> "FLOAT"],
    [how |-> "exactly", words |-> {<<"D", "A", "T", "E", "T", "I", "M", "E">>}, type |-> "DATETIME"],
    [how |-> "contains", words |-> {<<"T", "I", "M", "E", "S", "T", "A", "M", "P">>}, type |-> "TIMESTAMP"],
    [how |-> "exactly", words |-> {<<"D", "A", "T", "E">>}, type |-> "DATE"],
    [how |-> "exactly", words |-> {<<"T", "I", "M", "E">>}, type |-> "TIME"],
    [how |-> "contains", words |-> {<<"B", "O", "O", "L">>}, type |-> "BOOLEAN"],
    [how |-> "contains", words |-> {<<"B", "L", "O", "B">>, <<"B", "I", "N", "A", "R", "Y">>, <<"B", "Y", "T", "E", "A">>}, type |-> "BLOB"],
    [how |-> "contains", words |-> {<<"J", "S", "O", "N">>}, type |-> "JSON_TYPE"],
    [how |-> "contains", words |-> {<<"U", "U", "I", "D">>}, type |-> "UUID_TYPE"]>>

\* word occurs in text at position i
OccursAt(text, word, i) ==
  /\ i + Len(word) - 1 <= Len(text)
  /\ \A k \in 1..Len(word) : text[i + k - 1] = word[k]

RuleMatches(rule, text) ==
  \E word \in rule.words :
    CASE rule.how = "contains" -> \E i \in 1..Len(text) : OccursAt(text, word, i)
      [] rule.how = "starts" -> OccursAt(text, word, 1)
      [] OTHER -> text = word

\* the type of the first rule that matches, STRING when none does
FirstMatch(text) ==
  IF \E i \in 1..Len(TypeRules) : RuleMatches(TypeRules[i], text)
    THEN TypeRules[CHOOSE i \in 1..Len(TypeRules) :
                     /\ RuleMatches(TypeRules[i], text)
                     /\ \A j \in 1..(i - 1) : ~RuleMatches(TypeRules[j], text)].type
    ELSE "STRING"

IsQuote(c) == c \in {"'", "\"", Backtick}

RECURSIVE Unquoted(_)
\* a name without the quotes around it
Unquoted(text) ==
  IF text # <<>> /\ IsQuote(Head(text)) THEN Unquoted(Tail(text))
  ELSE IF text # <<>> /\ IsQuote(text[Len(text)]) THEN Unquoted(SubSeq(text, 1, Len(text) - 1))
  ELSE text

\* C26: the SQL type mapping gives every type name the generic type of the
\* first rule of the reference precedence list that matches the name, taken
\* without surrounding quotes and without regard to case, STRING when no rule
\* matches, whatever the type parameters.
C26_TypePrecedenceList ==
  pc = "_map_sql_type_to_generic" =>
    ret = Ok(PStr(FirstMatch(Upper(Unquoted(args.sql_type)))))

\* a quoted lower-case bigint with parameters, matched by the BIGINT rule and
\* by the INT rule, has been mapped to BIG_INTEGER
C26_Witness ==
  /\ pc = "_map_sql_type_to_generic"
  /\ args.sql_type = <<"\"">> \o <<"b", "i", "g", "i", "n", "t">> \o <<"\"">>
  /\ args.type_params # None
  /\ ret = Ok(PStr("BIG_INTEGER"))



\* by how much an iteration of a branch advances idx
Advances(branch) ==
  CASE branch \in {"NOT NULL", "PRIMARY KEY"} -> {2}
    [] branch = "PRIMARY KEY AUTO_INCREMENT" -> {3}
    [] branch = "DEFAULT" -> {1, 2}
    [] OTHER -> {1}

\* C30: every iteration of the constraint loop advances the token index by
\* at least one (by 2 for NOT NULL and PRIMARY KEY, by 3 for PRIMARY KEY
\* AUTO_INCREMENT, by 1 or 2 for DEFAULT) and reads no token beyond the end
\* of the list, and the scan is left with the index past the last token.
C30_ScanAdvancesToTheEnd ==
  /\ (pc \in {"while", "left"} /\ args.branch # "none") =>
       /\ args.idx - args.was \in Advances(args.branch)
       /\ args.read <= Len(args.tokens)
  /\ pc = "left" => args.idx > Len(args.tokens)



\* the constraint loop, once entered, is left
ScanTerminates == (pc = "while") ~> (pc = "left")



\* the annotations of the annotated column assignments
Annotations ==
  {Mapped(<<"i", "n", "t">>), Mapped(<<"s", "t", "r">>), Mapped(<<"f", "l", "o", "a", "t">>), Mapped(<<"b", "o", "o", "l">>),
   Mapped(<<"d", "a", "t", "e", "t", "i", "m", "e">>), Mapped(<<"T", "e", "x", "t">>), Name(<<"i", "n", "t">>), Name(<<"D", "a", "t", "e">>),
   Subscript(Name(<<"O", "p", "t", "i", "o", "n", "a", "l">>), Name(<<"i", "n", "t">>)),
   Subscript(Name(<<"M", "a", "p", "p", "e", "d">>), Subscript(Name(<<"O", "p", "t", "i", "o", "n", "a", "l">>), Name(<<"i", "n", "t">>))),
   Subscript(Name(<<"M", "a", "p", "p", "e", "d">>), Subscript(Name(<<"O", "p", "t", "i", "o", "n", "a", "l">>), Name(<<"s", "t", "r">>))),
   Attribute(Name(<<"t", "y", "p", "e", "s">>), <<"I", "n", "t", "e", "g", "e", "r">>)}

\* the positional arguments of the column constructor calls: none, a type
\* expression or a ForeignKey
TypeArguments ==
  {<<>>, <<Name(<<"I", "n", "t", "e", "g", "e", "r">>)>>, <<Name(<<"T", "e", "x", "t">>)>>,
   <<Call(Name(<<"S", "t", "r", "i", "n", "g">>), <<Constant(PNum(50))>>, <<>>)>>,
   <<Call(Name(<<"E", "n", "u", "m">>), <<Str(<<"a">>), Str(<<"b">>)>>, <<>>)>>,
   <<Attribute(Name(<<"s", "a">>), <<"I", "n", "t", "e", "g", "e", "r">>)>>, <<Attribute(Name(<<"d", "b">>), <<"I", "n", "t", "e", "g", "e", "r">>)>>,
   <<Attribute(Name(<<"t", "y", "p", "e", "s">>), <<"T", "e", "x", "t">>)>>,
   <<Call(Attribute(Name(<<"s", "a">>), <<"S", "t", "r", "i", "n", "g">>), <<Constant(PNum(50))>>, <<>>)>>,
   <<Call(Name(<<"F", "o", "r", "e", "i", "g", "n", "K", "e", "y">>), <<Str(<<"u", "s", "e", "r", "s", ".", "i", "d">>)>>, <<>>)>>,
   <<Call(Attribute(Name(<<"s", "a">>), <<"F", "o", "r", "e", "i", "g", "n", "K", "e", "y">>), <<Str(<<"u", "s", "e", "r", "s", ".", "i", "d">>)>>, <<>>)>>,
   <<Call(Name(<<"F", "o", "r", "e", "i", "g", "n", "K", "e", "y">>), <<Str(<<"a", "p", "p", ".", "u", "s", "e", "r", "s", ".", "i", "d">>)>>, <<>>)>>,
   <<Call(Name(<<"F", "o", "r", "e", "i", "g", "n", "K", "e", "y">>), <<Str(<<"u", "s", "e", "r", "s">>)>>, <<>>)>>}

\* annotated assignments of a column constructor call to a name
ColumnAssignments ==
  {AnnAssign(Name(<<"c", "o", "l">>), annotation, Call(func, arguments, keywords)) :
     annotation \in Annotations,
     func \in {Name(<<"m", "a", "p", "p", "e", "d", "_", "c", "o", "l", "u", "m", "n">>), Attribute(Name(<<"s", "a">>), <<"C", "o", "l", "u", "m", "n">>)},
     arguments \in TypeArguments,
     keywords \in {<<>>, <<keyword(<<"n", "u", "l", "l", "a", "b", "l", "e">>, Constant(PBool(FALSE)))>>}}

-----------------------------------------------------------------------------
(* Specification of the Python-ORM parser.                                 *)

ParseOrm ==
  /\ pc = "idle"
  /\ \E python_code \in OrmTexts, orm_type \in OrmTypes :
       /\ pc' = "parse_python_orm_input"
       /\ args' = [python_code |-> python_code, orm_type |-> orm_type]
       /\ ret' = parse_python_orm_input(python_code, orm_type)

ParseColumnAssignment ==
  /\ pc = "idle"
  /\ \E node \in ColumnAssignments :
       /\ pc' = "_parse_column_assignment"
       /\ args' = [node |-> node]
       /\ ret' = _parse_column_assignment(node, <<>>)

NextOrm == ParseOrm \/ ParseColumnAssignment \/ Return

SpecOrm == Init /\ [][NextOrm]_vars

-----------------------------------------------------------------------------
(* Properties of the Python-ORM parser (specification SpecOrm).            *)

\* the target of a class-body assignment
TargetOf(item) == IF item.node = "Assign" THEN item.targets[1] ELSE item.target

\* a class-body assignment, simple or annotated, of a call to a column
\* constructor to a name
IsColumnAssignment(item) ==
  /\ item.node \in {"Assign", "AnnAssign"}
  /\ TargetOf(item).node = "Name"
  /\ item.value.node = "Call"
  /\ IsColDefCall(item.value.func)

\* the names such assignments bind, in body order
ColumnTargets(body) ==
  LET assigns == SelectSeq(body, IsColumnAssignment)
  IN [k \in 1..Len(assigns) |-> TargetOf(assigns[k]).id]

\* a module that is one recognized model class whose assignments all bind
\* names
OneModelClass(python_code) ==
  /\ python_code.valid
  /\ Len(python_code.body) = 1
  /\ python_code.body[1].node = "ClassDef"
  /\ _is_sqlalchemy_base(python_code.body[1])
  /\ \A i \in 1..Len(python_code.body[1].body) :
       python_code.body[1].body[i].node \in {"Assign", "AnnAssign"}
         => TargetOf(python_code.body[1].body[i]).node = "Name"

\* C8: in a recognized model class every class-body assignment, simple or
\* annotated, of a call to Column / mapped_column (bare or through a module
\* alias) becomes exactly one column named after the target, in body order;
\* a class with such assignments yields a table with those columns.
C8_ColumnAssignmentsBecomeColumns ==
  (/\ pc = "parse_python_orm_input"
   /\ Lower(args.orm_type) = <<"s", "q", "l", "a", "l", "c", "h", "e", "m", "y">>
   /\ OneModelClass(args.python_code))
    => /\ ret.kind = "ok"
       /\ LET names == ColumnTargets(args.python_code.body[1].body)
          IN names # <<>>
               => /\ Len(ret.value.tables) = 1
                  /\ Len(ret.value.tables[1].columns) = Len(names)
                  /\ \A k \in 1..Len(names) :
                       ret.value.tables[1].columns[k].name = PText(names[k])

\* the payload of constraint c is stored under the keys its consumers read
PayloadReadable(c) ==
  /\ c.type = PStr("DEFAULT") => HasKey(c.details, "value")
  /\ c.type = PStr("ENUM_VALUES") => IsList(Get(c.details, "values"))
  /\ c.type = PStr("FOREIGN_KEY")
       => /\ Truthy(Get(c.details, "references_table"))
          /\ IsList(Get(c.details, "references_columns"))

\* C9: a DEFAULT literal, an ENUM_VALUES list and a FOREIGN_KEY reference the
\* parser emits are stored where the adapters read them:
\* details.get("value"), details.get("values"), details.get("references_table")
\* with a references_columns sequence.
C9_PayloadsStoredWhereRead ==
  (pc = "parse_python_orm_input" /\ ret.kind = "ok")
    => \A i \in 1..Len(ret.value.tables) :
         \A j \in 1..Len(ret.value.tables[i].columns) :
           \A k \in 1..Len(ret.value.tables[i].columns[j].constraints) :
             PayloadReadable(ret.value.tables[i].columns[j].constraints[k])


RECURSIVE ClassesIn(_)
\* the classes defined in the statements, at any depth of classes and
\* functions
ClassesIn(stmts) ==
  IF stmts = <<>> THEN {}
  ELSE (IF Head(stmts).node = "ClassDef" THEN {Head(stmts)} ELSE {})
       \cup (IF Head(stmts).node \in {"ClassDef", "FunctionDef"}
               THEN ClassesIn(Head(stmts).body) ELSE {})
       \cup ClassesIn(Tail(stmts))

\* the class inherits from Base, DeclarativeBase, Model or BaseModel, or from
\* <alias>.Model for a recognized module alias
InheritsRecognizedBase(class) ==
  \E i \in 1..Len(class.bases) :
    \/ class.bases[i] \in {Name(<<"B", "a", "s", "e">>), Name(<<"D", "e", "c", "l", "a", "r", "a", "t", "i", "v", "e", "B", "a", "s", "e">>), Name(<<"M", "o", "d", "e", "l">>),
                           Name(<<"B", "a", "s", "e", "M", "o", "d", "e", "l">>)}
    \/ class.bases[i] \in {Attribute(Name(alias), <<"M", "o", "d", "e", "l">>) : alias \in sqla_module_aliases}

\* the positions of the class body that assign a string literal to
\* __tablename__
TableNameAssignments(class) ==
  {i \in 1..Len(class.body) :
     /\ class.body[i].node = "Assign"
     /\ class.body[i].targets = <<Name(<<"_", "_", "t", "a", "b", "l", "e", "n", "a", "m", "e", "_", "_">>)>>
     /\ class.body[i].value.node = "Constant"
     /\ IsStr(class.body[i].value.value)}

\* the name of the class's table: the __tablename__ literal (the last one
\* assigned) when there is one, else the class name
TableNameOf(class) ==
  IF TableNameAssignments(class) = {} THEN class.name
  ELSE LET last == CHOOSE i \in TableNameAssignments(class) :
                     \A k \in TableNameAssignments(class) : k <= i
       IN class.body[last].value.value.v

ColumnParsed ==
  pc = "_parse_column_assignment" /\ ret.kind = "ok" /\ Len(ret.value) = 1

\* the name a type expression ends in: Integer for Integer, sa.Integer,
\* String for String(50), sa.String(50)
UnqualifiedName(n) ==
  IF n.node = "Call" THEN (IF n.func.node = "Name" THEN n.func.id ELSE n.func.attr)
  ELSE IF n.node = "Name" THEN n.id
  ELSE n.attr

\* the call's first positional argument is a type expression: a name, a
\* qualified name or a call of one, other than ForeignKey
HasTypeArgument(call) ==
  /\ call.args # <<>>
  /\ call.args[1].node \in {"Name", "Attribute", "Call"}
  /\ UnqualifiedName(call.args[1]) # <<"F", "o", "r", "e", "i", "g", "n", "K", "e", "y">>

\* C22: the column parsed from a constructor call whose first positional
\* argument is a type expression has the generic type the ORM type-name
\* mapping gives for that type's name, whatever the qualifier and whatever
\* the annotation.
C22_ExplicitTypeArgument ==
  (ColumnParsed /\ HasTypeArgument(args.node.value)) =>
    ret.value[1].generic_type
      = PStr(_map_sqlalchemy_type_to_generic(UnqualifiedName(args.node.value.args[1])))


RECURSIVE Unwrapped(_)
\* the annotation inside Mapped[...] and Optional[...], at any depth
Unwrapped(annotation) ==
  IF annotation.node = "Subscript" /\ IsNamed(annotation.value, {<<"M", "a", "p", "p", "e", "d">>, <<"O", "p", "t", "i", "o", "n", "a", "l">>})
    THEN Unwrapped(annotation.slice)
    ELSE annotation

\* the generic type of an annotation name: the scalar annotations, any other
\* name through the ORM type-name mapping
AnnotatedType(id) ==
  CASE id = <<"i", "n", "t">> -> "INTEGER"
    [] id = <<"s", "t", "r">> -> "STRING"
    [] id = <<"f", "l", "o", "a", "t">> -> "FLOAT"
    [] id = <<"b", "o", "o", "l">> -> "BOOLEAN"
    [] id = <<"d", "a", "t", "e", "t", "i", "m", "e">> -> "DATETIME"
    [] OTHER -> _map_sqlalchemy_type_to_generic(id)

\* C23: the column parsed from a constructor call without positional
\* argument, annotated with a name inside any nesting of Mapped[...] and
\* Optional[...], has the generic type of that name: INTEGER for int, STRING
\* for str, FLOAT for float, BOOLEAN for bool, DATETIME for datetime, the ORM
\* type-name mapping for any other name.
C23_AnnotationType ==
  (/\ ColumnParsed
   /\ args.node.value.args = <<>>
   /\ Unwrapped(args.node.annotation).node = "Name") =>
    ret.value[1].generic_type = PStr(AnnotatedType(Unwrapped(args.node.annotation).id))


\* the call's first positional argument is ForeignKey("table.column")
HasForeignKeyArgument(call) ==
  /\ call.args # <<>>
  /\ call.args[1].node = "Call"
  /\ UnqualifiedName(call.args[1]) = <<"F", "o", "r", "e", "i", "g", "n", "K", "e", "y">>
  /\ call.args[1].args # <<>>
  /\ call.args[1].args[1].node = "Constant"
  /\ call.args[1].args[1].value.t = "text"
  /\ HasDot(call.args[1].args[1].value.v)

\* the FOREIGN_KEY constraints of a parsed column
ForeignKeyConstraints(col_isr) ==
  SelectSeq(col_isr.constraints, LAMBDA c : c.type = PStr("FOREIGN_KEY"))

\* the target table and column of a FOREIGN_KEY constraint, read where the
\* parser stores them (line 158)
ReferencesOf(c) ==
  LET payload == Get(c.details, "details")
  IN IF payload.t = "object"
       THEN <<Get(payload.v, "references_table"), Get(payload.v, "references_column")>>
       ELSE <<None, None>>

\* C24: the column parsed from a constructor call whose first positional
\* argument is ForeignKey("table.column") has exactly one FOREIGN_KEY
\* constraint, its target table and column being the parts of the string
\* before and after the first ".", and a column whose annotation names a type
\* keeps the generic type of that annotation.
C24_ForeignKeyArgument ==
  (/\ ColumnParsed
   /\ HasForeignKeyArgument(args.node.value)
   /\ Unwrapped(args.node.annotation).node = "Name") =>
    LET fk_target == args.node.value.args[1].args[1].value.v
        fks == ForeignKeyConstraints(ret.value[1])
    IN /\ Len(fks) = 1
       /\ ReferencesOf(fks[1]) = <<PText(BeforeDot(fk_target)), PText(AfterDot(fk_target))>>
       /\ ret.value[1].generic_type
            = PStr(AnnotatedType(Unwrapped(args.node.annotation).id))

-----------------------------------------------------------------------------
(* Specification of the CSV header cleaning.                               *)

HeaderChars == {"a", "B", "1", "_", " ", "-", "!", "'"}

MaxHeaderLen == 3

\* the headers of test_clean_csv_header and of the documentation, None, and
\* every short text over HeaderChars
Headers ==
  {None}
    \cup {PText(s) : s \in SeqsUpTo(HeaderChars, MaxHeaderLen)}
    \cup {PText(<<" ", "F", "i", "r", "s", "t", " ", "N", "a", "m", "e", " ">>), PText(<<"e", "m", "a", "i", "l", "-", "a", "d", "d", "r", "e", "s", "s">>),
          PText(<<"c", "o", "l", "u", "m", "n", ".", "w", "i", "t", "h", ".", "d", "o", "t", "s">>), PText(<<"c", "o", "l", "u", "m", "n", "/", "w", "i", "t", "h", "/", "s", "l", "a", "s", "h", "e", "s">>),
          PText(<<"1", "2", "3", "_", "s", "t", "a", "r", "t", "s", "W", "i", "t", "h", "N", "u", "m", "b", "e", "r">>), PText(<<" ", " ", "M", "u", "l", "t", "i", "p", "l", "e", " ", " ", " ", "S", "p", "a", "c", "e", "s", " ", " ">>),
          PText(<<"t", "e", "s", "t", "!", "@", "#", "c", "o", "l", "$">>), PText(<<"c", "o", "l", "1", "_", "_", "c", "o", "l", "2", "_">>),
          PText(<<"\n", " ", "\t">>), PText(<<"1", "2", "3", "c", "o", "l">>), PText(<<"!", "!", "!">>)}

CleanHeader ==
  /\ pc = "idle"
  /\ \E header_name \in Headers :
       /\ pc' = "_clean_csv_header"
       /\ args' = header_name
       /\ ret' = Ok(PText(_clean_csv_header(header_name)))

\* the cell values type inference is run on: those of test_infer_column_type
\* and further int / float / bool spellings; None stands for a missing value
InferCells ==
  {None}
    \cup {PText(s) : s \in {<<>>, <<" ">>, <<"1">>, <<"0">>, <<"4", "5", "0">>, <<"-", "7">>, <<" ", "1", "2", " ">>, <<"1", "_", "0">>,
                            <<"2", ".", "5">>, <<"1", "e", "5">>, <<"n", "a", "n">>, <<"5", ".">>, <<"t", "r", "u", "e">>, <<"F">>, <<"Y", "e", "s">>,
                            <<"o", "f", "f">>, <<" ", "t">>, <<"t", "e", "x", "t">>, <<"1", ".", "2", ".", "3">>}}

MaxCsvValues == 2

InferValues ==
  SeqsUpTo(InferCells, MaxCsvValues)
    \cup {<<PText(<<"t", "r", "u", "e">>), PText(<<"F">>), PText(<<"1">>)>>,
          <<PText(<<"1">>), PText(<<"0">>), PText(<<"1">>)>>,
          <<PText(<<"1">>), PText(<<"2", ".", "5">>), PText(<<"3">>), None, PText(<<" ">>)>>,
          <<PText(<<"T">>), PText(<<"f">>), PText(<<"Y", "e", "s">>), PText(<<"n", "O">>), PText(<<"0">>),
            PText(<<"1">>), PText(<<"O", "N">>), PText(<<"o", "f", "f">>)>>}

\* sample_size as the caller passes it: small ones, and the default
SampleSizes == {1, 2, sample_size}

InferType ==
  /\ pc = "idle"
  /\ \E values \in InferValues, size \in SampleSizes :
       /\ pc' = "_infer_column_type"
       /\ args' = [values |-> values, sample_size |-> size]
       /\ ret' = Ok(PStr(_infer_column_type(values, size)))

HeaderCells == {<<"N", "a", "m", "e">>, <<"V", "a", "l", "u", "e">>, <<"N", "a", "m", "e", "_", "1">>, <<" ">>}

MaxCsvColumns == 3

\* header rows: short ones over HeaderCells; the one of
\* test_duplicate_header_names_cleaned; a row without cells (a leading blank
\* line); cells that cleaning changes
HeaderRows ==
  SeqsUpTo(HeaderCells, MaxCsvColumns)
    \cup {<<<<"N", "a", "m", "e">>, <<"V", "a", "l", "u", "e">>, <<"N", "a", "m", "e">>, <<"O", "t", "h", "e", "r">>, <<"V", "a", "l", "u", "e">>>>,
          <<<<>>, <<" ">>>>,
          <<<<" ", "F", "i", "r", "s", "t", " ", "N", "a", "m", "e", " ">>, <<"1", "2", "3", "c", "o", "l">>, <<"!", "!", "!">>>>}

DataRowSet == {<<>>, <<<<"1">>>>, <<<<"x">>, <<"2", ".", "5">>>>, <<<<"2">>, <<>>, <<"t">>, <<"9">>>>}

MaxCsvRows == 2

DataRows == SeqsUpTo(DataRowSet, MaxCsvRows)

\* the texts: empty or whitespace-only ones; texts whose data comes after
\* sniff_sample_chars or more characters of whitespace; texts with a header
\* row and data rows; header-only texts too simple for the sniffer
CsvTexts ==
  {CsvText(TRUE, TRUE, sniffs, <<>>) : sniffs \in BOOLEAN}
    \cup {CsvText(FALSE, TRUE, TRUE, <<<<<<" ", "a">>, <<"b">>>>>> \o data) :
            data \in {<<>>, <<<<<<"1">>, <<"2">>>>>>}}
    \cup {CsvText(FALSE, TRUE, TRUE, <<<<<<" ">>>>, <<<<"1">>, <<"2">>>>>>)}
    \cup {CsvText(FALSE, FALSE, TRUE, <<header>> \o data) :
            header \in HeaderRows, data \in DataRows}
    \cup {CsvText(FALSE, FALSE, FALSE, <<header>>) : header \in HeaderRows}

TableNames == {None, PText(<<>>), PText(<<"s", "i", "m", "p", "l", "e", "_", "d", "a", "t", "a">>), PText(<<"1", "2", "3", " ", "f">>)}

ParseCsv ==
  /\ pc = "idle"
  /\ \E csv_data \in CsvTexts, table_name_from_file \in TableNames :
       /\ pc' = "parse_csv_input"
       /\ args' = [csv_data |-> csv_data, table_name_from_file |-> table_name_from_file]
       /\ ret' = parse_csv_input(csv_data, table_name_from_file)

NextCsv == CleanHeader \/ InferType \/ ParseCsv \/ Return

SpecCsv == Init /\ [][NextCsv]_vars

\* the header text after trimming, stripping quotes, replacing space, "-",
\* "." and "/" by "_" and dropping every other character that is neither
\* alphanumeric nor "_" ("" for None)
CleanedText(header_name) ==
  IF header_name.t = "null" THEN <<>>
  ELSE LET stripped == Strip(Strip(header_name.v, Whitespace), {"'", "\""})
           replaced == Replace(Replace(Replace(Replace(stripped, " ", "_"),
                                               "-", "_"), ".", "_"), "/", "_")
       IN SelectSeq(replaced, LAMBDA c : IsAlnum(c) \/ c = "_")

\* a text with its runs of underscores collapsed and its outer ones removed
Collapsed(text) == Join(FilterNonEmpty(Split(text, "_")), "_")

\* C10: _clean_csv_header returns a non-empty name of alphanumerics and
\* underscores without repeated underscores; when the cleaned text starts
\* with a digit the name is the text prefixed with "_" ("123col" gives
\* "_123col"); when nothing remains the name is "unnamed_column".
C10_CleanHeaderContract ==
  pc = "_clean_csv_header"
    => LET name == ret.value.v
           text == CleanedText(args)
       IN /\ ret.kind = "ok"
          /\ name # <<>>
          /\ \A i \in 1..Len(name) : IsAlnum(name[i]) \/ name[i] = "_"
          /\ \A i \in 1..(Len(name) - 1) : ~(name[i] = "_" /\ name[i + 1] = "_")
          /\ (text # <<>> /\ text[1] \in Digits)
               => name = <<"_">> \o Collapsed(text)
          /\ Collapsed(text) = <<>> => name = <<"u", "n", "n", "a", "m", "e", "d", "_", "c", "o", "l", "u", "m", "n">>

\* the same contract without the digit-prefix clause
C10_NameShape ==
  pc = "_clean_csv_header"
    => LET name == ret.value.v
       IN /\ name # <<>>
          /\ \A i \in 1..Len(name) : IsAlnum(name[i]) \/ name[i] = "_"
          /\ \A i \in 1..(Len(name) - 1) : ~(name[i] = "_" /\ name[i + 1] = "_")
          /\ Collapsed(CleanedText(args)) = <<>> => name = <<"u", "n", "n", "a", "m", "e", "d", "_", "c", "o", "l", "u", "m", "n">>

-----------------------------------------------------------------------------
(* Properties of the CSV parser (specification SpecCsv).                   *)

\* the values of a column that are neither null nor empty nor whitespace
NonBlank(values) ==
  SelectSeq(values, LAMBDA v : v.t # "null" /\ \E i \in 1..Len(v.v) : v.v[i] \notin Whitespace)

\* the first n of them
Sample(values, n) == [k \in 1..(IF Len(NonBlank(values)) < n THEN Len(NonBlank(values)) ELSE n) |->
                        NonBlank(values)[k].v]

\* the type the precedence INTEGER > FLOAT > BOOLEAN > STRING gives a sample
TypeByPrecedence(sample) ==
  IF sample = <<>> THEN "STRING"
  ELSE IF \A k \in 1..Len(sample) : int_parses(sample[k]) THEN "INTEGER"
  ELSE IF \A k \in 1..Len(sample) : float_parses(sample[k]) THEN "FLOAT"
  ELSE IF \A k \in 1..Len(sample) : Lower(sample[k]) \in bool_keywords THEN "BOOLEAN"
  ELSE "STRING"

CleanedHeader(csv_data) ==
  [k \in 1..Len(csv_data.rows[1]) |-> _clean_csv_header(PText(csv_data.rows[1][k]))]

\* how many of the first k names equal the k-th
Occurrence(names, k) == Cardinality({j \in 1..k : names[j] = names[k]})

\* C12: duplicate cleaned header names are told apart by occurrence count:
\* the first occurrence of x keeps x, the k-th (k >= 2) becomes x_(k-1);
\* names that occur once are unchanged and column order is preserved.
C12_DuplicateHeaders ==
  (pc = "parse_csv_input" /\ ret.kind = "ok" /\ ret.value.tables # <<>>)
    => LET names == CleanedHeader(args.csv_data)
           columns == ret.value.tables[1].columns
       IN /\ Len(columns) = Len(names)
          /\ \A k \in 1..Len(names) :
               columns[k].name =
                 PText(IF Occurrence(names, k) = 1 THEN names[k]
                       ELSE names[k] \o <<"_">> \o str_int(Occurrence(names, k) - 1))

\* Name, Name, Name became Name, Name_1, Name_2
C12_Witness ==
  /\ pc = "parse_csv_input"
  /\ ret.kind = "ok"
  /\ Len(ret.value.tables) = 1
  /\ Len(ret.value.tables[1].columns) = 3
  /\ ret.value.tables[1].columns[1].name = PText(<<"N", "a", "m", "e">>)
  /\ ret.value.tables[1].columns[2].name = PText(<<"N", "a", "m", "e", "_", "1">>)
  /\ ret.value.tables[1].columns[3].name = PText(<<"N", "a", "m", "e", "_", "2">>)

\* every cell of the header row is empty or whitespace-only
HeaderBlank(csv_data) ==
  \A k \in 1..Len(csv_data.rows[1]) :
    \A i \in 1..Len(csv_data.rows[1][k]) : csv_data.rows[1][k][i] \in Whitespace

\* C13: parse_csv_input raises ValueError and returns no SchemaISR whenever
\* every cell of the header row of a text (one that is not empty or
\* whitespace-only as a whole) is empty or whitespace-only, with or without
\* data rows.
C13_BlankHeaderRaises ==
  (/\ pc = "parse_csv_input"
   /\ ~args.csv_data.blank
   /\ HeaderBlank(args.csv_data))
    => ret.kind = "ValueError" /\ ret.value = None

\* C14: an empty or whitespace-only text gives a SchemaISR with zero tables
\* and no error, for any table name; every other accepted text gives exactly
\* one table, and no column carries a constraint.
C14_EmptyTextOrOneTable ==
  pc = "parse_csv_input"
    => /\ args.csv_data.blank => (ret.kind = "ok" /\ ret.value.tables = <<>>)
       /\ (~args.csv_data.blank /\ ret.kind = "ok")
            => /\ Len(ret.value.tables) = 1
               /\ \A k \in 1..Len(ret.value.tables[1].columns) :
                    ret.value.tables[1].columns[k].constraints = <<>>

-----------------------------------------------------------------------------
(* Specification of the PostgreSQL adapter: the ISRs it is run on are those *)
(* of test_postgresql_adapter.py and their neighbours.                      *)

\* ConstraintDetail({"type": type})
Typed(type) == ConstraintDetail(<<<<"type", PText(type)>>>>)

\* ConstraintDetail({"type": "DEFAULT", "value": value})
Default(value) == ConstraintDetail(<<<<"type", PText(<<"D", "E", "F", "A", "U", "L", "T">>)>>, <<"value", value>>>>)

\* ConstraintDetail({"type": "ENUM_VALUES", "values": values})
EnumValues(values) ==
  ConstraintDetail(<<<<"type", PText(<<"E", "N", "U", "M", "_", "V", "A", "L", "U", "E", "S">>)>>,
                     <<"values", PList([k \in 1..Len(values) |-> PText(values[k])])>>>>)

\* ConstraintDetail({"type": "FOREIGN_KEY", "references_table": "users",
\* "references_columns": ["id"]} | extra)
ForeignKey(extra) ==
  ConstraintDetail(<<<<"type", PText(<<"F", "O", "R", "E", "I", "G", "N", "_", "K", "E", "Y">>)>>,
                     <<"references_table", PText(<<"u", "s", "e", "r", "s">>)>>,
                     <<"references_columns", PList(<<PText(<<"i", "d">>)>>)>>>> \o extra)

PgColumns ==
  { ColumnISR(PText(<<"i", "d">>), PText(<<"I", "N", "T", "E", "G", "E", "R">>),
              <<Typed(<<"P", "R", "I", "M", "A", "R", "Y", "_", "K", "E", "Y">>), Typed(<<"A", "U", "T", "O", "_", "I", "N", "C", "R", "E", "M", "E", "N", "T">>)>>, None),
    ColumnISR(PText(<<"i", "d">>), PText(<<"I", "N", "T", "E", "G", "E", "R">>),
              <<Typed(<<"P", "R", "I", "M", "A", "R", "Y", "_", "K", "E", "Y">>), Typed(<<"A", "U", "T", "O", "_", "I", "N", "C", "R", "E", "M", "E", "N", "T">>), Typed(<<"N", "O", "T", "_", "N", "U", "L", "L">>)>>, None),
    ColumnISR(PText(<<"i", "d">>), PText(<<"B", "I", "G", "_", "I", "N", "T", "E", "G", "E", "R">>),
              <<Typed(<<"P", "R", "I", "M", "A", "R", "Y", "_", "K", "E", "Y">>), Typed(<<"A", "U", "T", "O", "_", "I", "N", "C", "R", "E", "M", "E", "N", "T">>)>>, None),
    ColumnISR(PText(<<"n", "a", "m", "e">>), PText(<<"S", "T", "R", "I", "N", "G">>),
              <<Typed(<<"N", "O", "T", "_", "N", "U", "L", "L">>), Typed(<<"U", "N", "I", "Q", "U", "E">>)>>, PText(<<"U", "s", "e", "r", "'", "s", " ", "n", "a", "m", "e">>)),
    ColumnISR(PText(<<"e", "m", "a", "i", "l">>), PText(<<"s", "t", "r", "i", "n", "g">>), <<Default(PText(<<"n", "o", "n", "e">>))>>, None),
    ColumnISR(PText(<<"c", "r", "e", "a", "t", "e", "d">>), PText(<<"T", "I", "M", "E", "S", "T", "A", "M", "P">>),
              <<Default(PText(<<"C", "U", "R", "R", "E", "N", "T", "_", "T", "I", "M", "E", "S", "T", "A", "M", "P">>))>>, None),
    ColumnISR(PText(<<"a", "c", "t", "i", "v", "e">>), PText(<<"B", "O", "O", "L", "E", "A", "N">>), <<Default(PBool(TRUE))>>, None),
    ColumnISR(PText(<<"s", "t", "a", "t", "u", "s">>), PText(<<"E", "N", "U", "M", "_", "T", "Y", "P", "E">>),
              <<EnumValues(<<<<"a", "c", "t", "i", "v", "e">>, <<"i", "n", "a", "c", "t", "i", "v", "e">>>>)>>, None),
    ColumnISR(PText(<<"s", "t", "a", "t", "u", "s">>), PText(<<"E", "N", "U", "M", "_", "T", "Y", "P", "E">>),
              <<EnumValues(<<<<"n", "e", "w">>, <<"i", "t", "'", "s">>>>), Typed(<<"N", "O", "T", "_", "N", "U", "L", "L">>)>>, None),
    ColumnISR(PText(<<"b", "_", "c">>), PText(<<"E", "N", "U", "M", "_", "T", "Y", "P", "E">>), <<EnumValues(<<<<"x">>>>)>>, None),
    ColumnISR(PText(<<"c">>), PText(<<"E", "N", "U", "M", "_", "T", "Y", "P", "E">>), <<EnumValues(<<<<"y">>>>)>>, None),
    ColumnISR(PText(<<"u", "s", "e", "r", "_", "i", "d">>), PText(<<"I", "N", "T", "E", "G", "E", "R">>), <<ForeignKey(<<>>)>>, None),
    ColumnISR(PText(<<"u", "s", "e", "r", "_", "i", "d">>), PText(<<"I", "N", "T", "E", "G", "E", "R">>),
              <<Typed(<<"N", "O", "T", "_", "N", "U", "L", "L">>),
                ForeignKey(<<<<"on_delete", PText(<<"C", "A", "S", "C", "A", "D", "E">>)>>,
                             <<"on_update", PText(<<"N", "O", " ", "A", "C", "T", "I", "O", "N">>)>>,
                             <<"name", PText(<<"f", "k", "_", "u", "s", "e", "r">>)>>>>)>>, None),
    ColumnISR(PText(<<"o", "r", "d", "e", "r", "_", "i", "d">>), PText(<<"I", "N", "T", "E", "G", "E", "R">>), <<Typed(<<"P", "R", "I", "M", "A", "R", "Y", "_", "K", "E", "Y">>)>>, None),
    ColumnISR(PText(<<"p", "r", "o", "d", "u", "c", "t", "_", "i", "d">>), PText(<<"I", "N", "T", "E", "G", "E", "R">>),
              <<Typed(<<"P", "R", "I", "M", "A", "R", "Y", "_", "K", "E", "Y">>), Typed(<<"U", "N", "I", "Q", "U", "E">>)>>, None),
    ColumnISR(PText(<<"l", "e", "v", "e", "l">>), PText(<<"I", "N", "T", "E", "G", "E", "R">>), <<Default(PNum(1)), Default(PNum(2))>>, None),
    ColumnISR(PText(<<"s", "t", "a", "t", "e">>), PText(<<"S", "T", "R", "I", "N", "G">>),
              <<Default(PText(<<"a">>)), Typed(<<"N", "O", "T", "_", "N", "U", "L", "L">>), Default(PText(<<"b">>))>>, None),
    ColumnISR(PText(<<"k", "i", "n", "d">>), PText(<<"E", "N", "U", "M", "_", "T", "Y", "P", "E">>), <<>>, None),
    ColumnISR(PText(<<"k", "i", "n", "d">>), PText(<<"E", "N", "U", "M", "_", "T", "Y", "P", "E">>), <<EnumValues(<<>>)>>, None),
    ColumnISR(PText(<<"k", "i", "n", "d">>), PText(<<"E", "N", "U", "M", "_", "T", "Y", "P", "E">>),
              <<ConstraintDetail(<<<<"type", PText(<<"E", "N", "U", "M", "_", "V", "A", "L", "U", "E", "S">>)>>, <<"values", PText(<<"a", ",", "b">>)>>>>)>>, None),
    ColumnISR(PText(<<"n", "o", "t", "e">>), PText(<<"G", "E", "O", "M", "E", "T", "R", "Y">>), <<ConstraintDetail(<<>>)>>, None) }

\* the pg_type texts _get_column_constraints_ddl is called with directly
PgTypes == {<<"S", "E", "R", "I", "A", "L">>, <<"B", "I", "G", "S", "E", "R", "I", "A", "L">>, <<"I", "N", "T", "E", "G", "E", "R">>, <<"V", "A", "R", "C", "H", "A", "R", "(", "2", "5", "5", ")">>}

PgTableNames == {<<"u", "s", "e", "r", "s">>, <<"a">>, <<"a", "_", "b">>}

MaxPgColumns == 2

PgColumnLists == SeqsUpTo(PgColumns, MaxPgColumns)

\* one table of any columns, or two tables of one column each, or the first
\* preceded by a table without columns
PgTableLists ==
  {<<>>}
  \cup { <<TableISR(PText(name), columns, comment)>> :
           name \in PgTableNames, columns \in PgColumnLists,
           comment \in {None, PText(<<"A", "l", "l", " ", "t", "h", "e", " ", "u", "s", "e", "r", "s">>)} }
  \cup { <<TableISR(PText(<<"u", "s", "e", "r", "s">>), <<c1>>, None), TableISR(PText(<<"o", "r", "d", "e", "r", "s">>), <<c2>>, None)>> :
           c1 \in PgColumns, c2 \in PgColumns }
  \cup { <<TableISR(PText(<<"a", "_", "b">>), <<c1>>, None), TableISR(PText(<<"a">>), <<c2>>, None)>> :
           c1 \in PgColumns, c2 \in PgColumns }
  \cup { <<TableISR(PText(<<"e", "m", "p", "t", "y">>), <<>>, None), TableISR(PText(<<"u", "s", "e", "r", "s">>), <<c>>, None)>> :
           c \in PgColumns }

PgSchemas ==
  { SchemaISR(tables, None, None) : tables \in PgTableLists }
  \cup { SchemaISR(tables, PText(<<"s", "h", "o", "p">>), PText(<<"1", ".", "0">>)) :
           tables \in {t \in PgTableLists : Len(t) = 0 \/ (Len(t) = 1 /\ Len(t[1].columns) <= 1)} }

MapType ==
  /\ pc = "idle"
  /\ \E col_isr \in PgColumns, nested_quotes \in BOOLEAN :
       /\ pc' = "_map_generic_type_to_postgresql"
       /\ args' = [col_isr |-> col_isr, nested_quotes |-> nested_quotes]
       /\ ret' = postgresql_adapter(nested_quotes,
                   Ok(PText(_map_generic_type_to_postgresql(col_isr, <<>>))))

ColumnConstraintsDdl ==
  /\ pc = "idle"
  /\ \E col_isr \in PgColumns, pg_type \in PgTypes, nested_quotes \in BOOLEAN :
       /\ pc' = "_get_column_constraints_ddl"
       /\ args' = [col_isr |-> col_isr, pg_type |-> PText(pg_type),
                   nested_quotes |-> nested_quotes]
       /\ ret' = postgresql_adapter(nested_quotes,
                   _get_column_constraints_ddl(col_isr, PText(pg_type)))

ConvertPg ==
  /\ pc = "idle"
  /\ \E schema_isr \in PgSchemas, nested_quotes \in BOOLEAN :
       /\ pc' = "convert_isr_to_postgresql_ddl"
       /\ args' = [schema_isr |-> schema_isr, nested_quotes |-> nested_quotes]
       /\ ret' = postgresql_adapter(nested_quotes, convert_isr_to_postgresql_ddl(schema_isr))

NextPg == MapType \/ ColumnConstraintsDdl \/ ConvertPg \/ Return

SpecPg == Init /\ [][NextPg]_vars


\* C27: the column names of the table parsed from a CSV text are pairwise
\* distinct, whatever the header row, a header with a cell that already has
\* the suffixed form of another (Name, Name_1, Name) included.
C27_DistinctColumnNames ==
  (pc = "parse_csv_input" /\ ret.kind = "ok" /\ ret.value.tables # <<>>)
    => LET columns == ret.value.tables[1].columns
       IN \A j, k \in 1..Len(columns) : j # k => columns[j].name # columns[k].name

-----------------------------------------------------------------------------
(* Properties of the PostgreSQL adapter (specification SpecPg).             *)

\* a conversion by the adapter has returned its script
Converted == pc = "convert_isr_to_postgresql_ddl" /\ ret.kind = "ok"

\* the lines of the returned script
ScriptLines == Split(ret.value.v, "\n")

\* a column definition line is `    "<name>" <type and clauses>`, followed by
\* a comma unless it is the last line of its CREATE TABLE
IsLineOf(line, col_isr) ==
  StartsWith(line, <<" ", " ", " ", " ">> \o Quoted(col_isr.name.v) \o <<" ">>)

\* the line is the column's name followed by exactly this type, then a
\* clause, a comma or the end of the line
HasType(line, col_isr, pg_type) ==
  LET start == <<" ", " ", " ", " ">> \o Quoted(col_isr.name.v) \o <<" ">> \o pg_type
  IN /\ StartsWith(line, start)
     /\ Len(line) > Len(start) => line[Len(start) + 1] \in {" ", ","}

IsTableLevelPrimaryKey(line) == StartsWith(line, <<" ", " ", " ", " ", "P", "R", "I", "M", "A", "R", "Y", " ", "K", "E", "Y", " ", "(">>)

\* the column has both a PRIMARY_KEY and an AUTO_INCREMENT constraint and an
\* integer generic type
IsSerialColumn(col_isr) ==
  /\ AnyConstraint(col_isr, <<"P", "R", "I", "M", "A", "R", "Y", "_", "K", "E", "Y">>)
  /\ AnyConstraint(col_isr, <<"A", "U", "T", "O", "_", "I", "N", "C", "R", "E", "M", "E", "N", "T">>)
  /\ Upper(col_isr.generic_type.v) \in {<<"I", "N", "T", "E", "G", "E", "R">>, <<"B", "I", "G", "_", "I", "N", "T", "E", "G", "E", "R">>}

\* the schema has one table, whose columns have different names
OneTable(schema_isr) ==
  /\ Len(schema_isr.tables) = 1
  /\ \A j, k \in 1..Len(schema_isr.tables[1].columns) :
       j # k => schema_isr.tables[1].columns[j].name # schema_isr.tables[1].columns[k].name

\* C15: when a schema of one table is converted, every column of it with
\* PRIMARY_KEY and AUTO_INCREMENT and generic type INTEGER (BIG_INTEGER) has
\* a line in the script, that line gives its type as exactly SERIAL
\* (BIGSERIAL) and carries neither PRIMARY KEY nor NOT NULL, and no
\* table-level PRIMARY KEY line names the column.
C15_SerialPrimaryKey ==
  (pc = "convert_isr_to_postgresql_ddl" /\ OneTable(args.schema_isr)) =>
    \A j \in 1..Len(args.schema_isr.tables[1].columns) :
      LET col_isr == args.schema_isr.tables[1].columns[j] IN
        IsSerialColumn(col_isr) =>
          /\ ret.kind = "ok"
          /\ \E n \in 1..Len(ScriptLines) : IsLineOf(ScriptLines[n], col_isr)
          /\ \A n \in 1..Len(ScriptLines) :
               /\ IsLineOf(ScriptLines[n], col_isr) =>
                    /\ HasType(ScriptLines[n], col_isr,
                               IF Upper(col_isr.generic_type.v) = <<"I", "N", "T", "E", "G", "E", "R">>
                                 THEN <<"S", "E", "R", "I", "A", "L">> ELSE <<"B", "I", "G", "S", "E", "R", "I", "A", "L">>)
                    /\ ~Contains(ScriptLines[n], <<"P", "R", "I", "M", "A", "R", "Y", " ", "K", "E", "Y">>)
                    /\ ~Contains(ScriptLines[n], <<"N", "O", "T", " ", "N", "U", "L", "L">>)
               /\ IsTableLevelPrimaryKey(ScriptLines[n]) =>
                    ~Contains(ScriptLines[n], Quoted(pg_clean_identifier(col_isr.name)))

\* the first line of the table's CREATE TABLE statement
CreateTableLine(table_isr) ==
  <<"C", "R", "E", "A", "T", "E", " ", "T", "A", "B", "L", "E", " ">> \o Quoted(table_isr.name.v) \o <<" ", "(">>

\* line m of the script lies inside the table's CREATE TABLE statement
InCreateTable(table_isr, m) ==
  \E n \in 1..(m - 1) :
    /\ ScriptLines[n] = CreateTableLine(table_isr)
    /\ \A k \in n..m : ScriptLines[k] # <<")", ";">>

\* the column is an ENUM_TYPE column with values: its first ENUM_VALUES
\* constraint holds a non-empty list
HasEnumValues(col_isr) ==
  /\ Upper(col_isr.generic_type.v) = <<"E", "N", "U", "M", "_", "T", "Y", "P", "E">>
  /\ \E k \in 1..Len(col_isr.constraints) :
       /\ col_isr.constraints[k].type.t = "text"
       /\ TypeIs(col_isr.constraints[k], <<"E", "N", "U", "M", "_", "V", "A", "L", "U", "E", "S">>)
       /\ IsList(Get(col_isr.constraints[k].details, "values"))
       /\ Truthy(Get(col_isr.constraints[k].details, "values"))

\* the values of such a column
OwnValues(col_isr) ==
  LET k == CHOOSE k \in 1..Len(col_isr.constraints) :
             /\ col_isr.constraints[k].type.t = "text"
             /\ TypeIs(col_isr.constraints[k], <<"E", "N", "U", "M", "_", "V", "A", "L", "U", "E", "S">>)
  IN Get(col_isr.constraints[k].details, "values").v

\* enum_<table>_<column>
EnumNameOf(table_isr, col_isr) ==
  <<"e", "n", "u", "m", "_">> \o table_isr.name.v \o <<"_">> \o col_isr.name.v

\* the script creates the column's type with the column's values and the
\* column's line in its table gives that type
EnumRendered(table_isr, col_isr) ==
  /\ \E n \in 1..Len(ScriptLines) :
       ScriptLines[n] = <<"C", "R", "E", "A", "T", "E", " ", "T", "Y", "P", "E", " ">> \o Quoted(EnumNameOf(table_isr, col_isr))
                        \o <<" ", "A", "S", " ", "E", "N", "U", "M", " ", "(">> \o FormattedEnumValues(OwnValues(col_isr)) \o <<")", ";">>
  /\ \E m \in 1..Len(ScriptLines) :
       /\ InCreateTable(table_isr, m)
       /\ HasType(ScriptLines[m], col_isr, Quoted(EnumNameOf(table_isr, col_isr)))

\* the positions <<table, column>> of the schema's columns
ColumnPositions(schema_isr) ==
  {<<i, j>> \in (1..Len(schema_isr.tables)) \X (1..MaxPgColumns) :
     j <= Len(schema_isr.tables[i].columns)}

\* C16: when a schema is converted, any two ENUM_TYPE columns with values
\* that differ in table name or in column name have different type names
\* enum_<table>_<column>, the script has a CREATE TYPE statement for each
\* with that column's values, and each column's line gives its own type.
C16_EnumTypePerTableAndColumn ==
  pc = "convert_isr_to_postgresql_ddl" =>
    \A p, q \in ColumnPositions(args.schema_isr) :
      LET t1 == args.schema_isr.tables[p[1]]
          c1 == t1.columns[p[2]]
          t2 == args.schema_isr.tables[q[1]]
          c2 == t2.columns[q[2]]
      IN (HasEnumValues(c1) /\ HasEnumValues(c2) /\ <<t1.name, c1.name>> # <<t2.name, c2.name>>) =>
           /\ ret.kind = "ok"
           /\ EnumNameOf(t1, c1) # EnumNameOf(t2, c2)
           /\ EnumRendered(t1, c1)
           /\ EnumRendered(t2, c2)


IsEnumColumn(col_isr) == Upper(col_isr.generic_type.v) = <<"E", "N", "U", "M", "_", "T", "Y", "P", "E">>

\* C28: when a schema with an ENUM_TYPE column is converted, with or without
\* an ENUM_VALUES constraint and whatever its values payload, a script is
\* returned and every line in the column's CREATE TABLE that gives the
\* column the type enum_<table>_<column> comes after a CREATE TYPE statement
\* of that name.
C28_EnumTypeDefinedBeforeUse ==
  pc = "convert_isr_to_postgresql_ddl" =>
    \A p \in ColumnPositions(args.schema_isr) :
      LET table_isr == args.schema_isr.tables[p[1]]
          col_isr == table_isr.columns[p[2]]
          created == <<"C", "R", "E", "A", "T", "E", " ", "T", "Y", "P", "E", " ">>
                       \o Quoted(Lower(EnumNameOf(table_isr, col_isr))) \o <<" ">>
      IN IsEnumColumn(col_isr) =>
           /\ ret.kind = "ok"
           /\ \A m \in 1..Len(ScriptLines) :
                (/\ InCreateTable(table_isr, m)
                 /\ HasType(ScriptLines[m], col_isr, Quoted(Lower(EnumNameOf(table_isr, col_isr)))))
                  => \E n \in 1..(m - 1) : StartsWith(ScriptLines[n], created)

IsCreateType(line) == StartsWith(line, <<"C", "R", "E", "A", "T", "E", " ", "T", "Y", "P", "E", " ">>)

IsCreateTable(line) == StartsWith(line, <<"C", "R", "E", "A", "T", "E", " ", "T", "A", "B", "L", "E", " ">>)

IsAlterTable(line) == StartsWith(line, <<"A", "L", "T", "E", "R", " ", "T", "A", "B", "L", "E", " ">>)

IsCommentOn(line) == StartsWith(line, <<"C", "O", "M", "M", "E", "N", "T", " ", "O", "N", " ">>)

\* C17: a conversion returns a script that starts with the header comment,
\* whose CREATE TABLE statements are those of the ISR's tables, one per
\* table and in the ISR's order, whose CREATE TYPE statements are in
\* ascending order without repetition and all precede every CREATE TABLE,
\* and whose ALTER TABLE and COMMENT ON statements all follow every CREATE
\* TABLE.
C17_ScriptOrder ==
  pc = "convert_isr_to_postgresql_ddl" =>
    /\ ret.kind = "ok"
    /\ StartsWith(ScriptLines[1], <<"-", "-">>)
    /\ SelectSeq(ScriptLines, IsCreateTable)
         = [i \in 1..Len(args.schema_isr.tables) |-> CreateTableLine(args.schema_isr.tables[i])]
    /\ \A n, m \in 1..Len(ScriptLines) :
         n < m =>
           /\ (IsCreateType(ScriptLines[n]) /\ IsCreateType(ScriptLines[m]))
                => TextLess(ScriptLines[n], ScriptLines[m])
           /\ ~(IsCreateTable(ScriptLines[n]) /\ IsCreateType(ScriptLines[m]))
           /\ ~(IsAlterTable(ScriptLines[n]) /\ IsCreateTable(ScriptLines[m]))
           /\ ~(IsCommentOn(ScriptLines[n]) /\ IsCreateTable(ScriptLines[m]))
           /\ ~(IsCommentOn(ScriptLines[n]) /\ IsAlterTable(ScriptLines[m]))

\* the clause of a referential action: nothing when the action is absent or
\* NO ACTION
ActionClause(details, key, clause) ==
  IF ~HasKey(details, key) \/ Upper(Get(details, key).v) = <<"N", "O", " ", "A", "C", "T", "I", "O", "N">> THEN <<>>
  ELSE <<" ">> \o clause \o <<" ">> \o Upper(Get(details, key).v)

\* the ALTER TABLE statement of a FOREIGN_KEY constraint on a column
ForeignKeyStatement(table_isr, col_isr, constraint) ==
  LET details == constraint.details
      name == IF HasKey(details, "name") THEN Get(details, "name").v
              ELSE <<"f", "k", "_">> \o table_isr.name.v \o <<"_">> \o col_isr.name.v
      ref_cols == Get(details, "references_columns").v
  IN <<"A", "L", "T", "E", "R", " ", "T", "A", "B", "L", "E", " ">> \o Quoted(table_isr.name.v) \o <<" ", "A", "D", "D", " ", "C", "O", "N", "S", "T", "R", "A", "I", "N", "T", " ">> \o Quoted(name)
     \o <<" ", "F", "O", "R", "E", "I", "G", "N", " ", "K", "E", "Y", " ", "(">> \o Quoted(col_isr.name.v) \o <<")", " ", "R", "E", "F", "E", "R", "E", "N", "C", "E", "S", " ">>
     \o Quoted(Get(details, "references_table").v)
     \o <<" ", "(">> \o JoinText([k \in 1..Len(ref_cols) |-> Quoted(ref_cols[k].v)], <<",", " ">>) \o <<")">>
     \o ActionClause(details, "on_delete", <<"O", "N", " ", "D", "E", "L", "E", "T", "E">>)
     \o ActionClause(details, "on_update", <<"O", "N", " ", "U", "P", "D", "A", "T", "E">>)
     \o <<";">>

\* C18: when a schema of one table is converted, every FOREIGN_KEY
\* constraint of a column has its ALTER TABLE ... ADD CONSTRAINT ... FOREIGN
\* KEY ... REFERENCES statement exactly once in the script, after every
\* CREATE TABLE, named fk_<table>_<column> unless the constraint names it,
\* with an ON DELETE / ON UPDATE clause exactly for an action that is given
\* and is not NO ACTION.
C18_ForeignKeyStatements ==
  (pc = "convert_isr_to_postgresql_ddl" /\ OneTable(args.schema_isr)) =>
    \A j \in 1..Len(args.schema_isr.tables[1].columns) :
      LET table_isr == args.schema_isr.tables[1]
          col_isr == table_isr.columns[j]
      IN \A k \in 1..Len(col_isr.constraints) :
           (col_isr.constraints[k].type.t = "text"
            /\ TypeIs(col_isr.constraints[k], <<"F", "O", "R", "E", "I", "G", "N", "_", "K", "E", "Y">>)) =>
             /\ ret.kind = "ok"
             /\ Cardinality({n \in 1..Len(ScriptLines) :
                   ScriptLines[n] = ForeignKeyStatement(table_isr, col_isr,
                                                        col_isr.constraints[k])}) = 1
             /\ \A n, m \in 1..Len(ScriptLines) :
                  (IsAlterTable(ScriptLines[n]) /\ IsCreateTable(ScriptLines[m])) => m < n

\* the columns of the table with a PRIMARY_KEY constraint, in column order
PrimaryKeyColumns(table_isr) ==
  SelectSeq(table_isr.columns, LAMBDA col_isr : AnyConstraint(col_isr, <<"P", "R", "I", "M", "A", "R", "Y", "_", "K", "E", "Y">>))

\* C20: when a schema of one table is converted whose PRIMARY_KEY columns
\* are not rendered as SERIAL or BIGSERIAL, the script declares the primary
\* key exactly once, as the table-level line PRIMARY KEY (cols...) naming
\* those columns in column order, and no line of such a column carries
\* PRIMARY KEY or UNIQUE.
C20_TableLevelPrimaryKey ==
  (/\ pc = "convert_isr_to_postgresql_ddl"
   /\ OneTable(args.schema_isr)
   /\ PrimaryKeyColumns(args.schema_isr.tables[1]) # <<>>
   /\ \A j \in 1..Len(args.schema_isr.tables[1].columns) :
        ~IsSerialColumn(args.schema_isr.tables[1].columns[j])) =>
    LET pk_cols == PrimaryKeyColumns(args.schema_isr.tables[1]) IN
      /\ ret.kind = "ok"
      /\ \E n \in 1..Len(ScriptLines) :
           ScriptLines[n] = <<" ", " ", " ", " ", "P", "R", "I", "M", "A", "R", "Y", " ", "K", "E", "Y", " ", "(">>
                            \o JoinText([k \in 1..Len(pk_cols) |-> Quoted(pk_cols[k].name.v)],
                                        <<",", " ">>)
                            \o <<")">>
      /\ Cardinality({n \in 1..Len(ScriptLines) :
                        Contains(ScriptLines[n], <<"P", "R", "I", "M", "A", "R", "Y", " ", "K", "E", "Y">>)}) = 1
      /\ \A k \in 1..Len(pk_cols), n \in 1..Len(ScriptLines) :
           IsLineOf(ScriptLines[n], pk_cols[k]) => ~Contains(ScriptLines[n], <<"U", "N", "I", "Q", "U", "E">>)

\* the constraints of the column that are DEFAULT constraints, in the
\* column's constraint order
DefaultConstraints(col_isr) ==
  SelectSeq(col_isr.constraints,
            LAMBDA c : c.type.t = "text" /\ TypeIs(c, <<"D", "E", "F", "A", "U", "L", "T">>))

\* the number of places of the text where the word starts
Occurrences(text, word) ==
  Cardinality({i \in 1..(Len(text) - Len(word) + 1) :
                 SubSeq(text, i, i + Len(word) - 1) = word})

\* C21: the clauses rendered for a column with more than one DEFAULT
\* constraint hold exactly one DEFAULT clause, that of the first DEFAULT
\* constraint of the column.
C21_FirstDefaultOnly ==
  (/\ pc = "_get_column_constraints_ddl"
   /\ ret.kind = "ok"
   /\ Len(DefaultConstraints(args.col_isr)) > 1) =>
    /\ Occurrences(ret.value.v, <<"D", "E", "F", "A", "U", "L", "T">>) = 1
    /\ Contains(ret.value.v, DefaultParts(DefaultConstraints(args.col_isr)[1])[1])

\* C29: the conversion of a schema whose tables have at least one column
\* returns DDL text: no exception leaves the adapter, whatever the
\* constraints of the columns.
C29_ConversionCompletes ==
  (/\ pc = "convert_isr_to_postgresql_ddl"
   /\ \E i \in 1..Len(args.schema_isr.tables) : args.schema_isr.tables[i].columns # <<>>)
    => ret.kind = "ok" /\ ret.value.t = "text"

====
